---- MODULE Spec2Model ----
(***************************************************************************)
(* Safety portal: the relational store with its row-level policies, the   *)
(* dashboard's SOS alert lifecycle, incident reporting, and the notify-sos *)
(* edge function.                                                          *)
(***************************************************************************)
EXTENDS Integers, Sequences, FiniteSets, TLC

\* ---------------------------------------------------------------- bounds
MaxAlerts == 2        \* rows of sos_alerts a behaviour inserts
MaxTime == 4          \* timestamps the clock issues
MaxIncidents == 1     \* rows of incidents a behaviour inserts

\* ------------------------------------------------------------- universes
Ids == {"u1", "u2"}                    \* auth.users ids
Sessions == {"s1", "s2"}               \* browser sessions (mounted dashboards)
\* who signs in where: u1 uses both sessions, u2 the second one
SignIns == {<<"s1", "u1">>, <<"s2", "u1">>, <<"s2", "u2">>}
NULL == "null"                         \* SQL NULL / JS null for id and text values
app_role == {"user", "moderator", "admin"}
incident_status == {"new", "under_review", "resolved"}
Positions == {<<12, 56>>}              \* coordinates the Geolocation API reports
display_name == "addr"                 \* display_name of a geocoding answer

VARIABLES
  users,        \* auth.users
  profiles,     \* public.profiles (ids)
  user_roles,   \* public.user_roles: set of <<user_id, role>> (UNIQUE pair)
  incidents,    \* public.incidents: sequence of rows, id = index
  sos_alerts,   \* public.sos_alerts: sequence of rows, id = index
  now,          \* the clock (NOW(), new Date()), advanced by the dashboard's writes
  actor,        \* auth.uid() of the last store request, NULL for system steps
  session,      \* Dashboard: session[s] = user id or NULL
  activeAlert,  \* Dashboard: activeAlert[s] = id of the row held, 0 for null
  loading,      \* Dashboard: loading[s]
  pc,           \* Dashboard: where handleSOS of s is suspended
  hs,           \* Dashboard: locals of the running handleSOS of s
  chk,          \* Dashboard: checkActiveAlert request of s in flight
  toast,        \* the toast the last step showed, and in which session
  invocations,  \* notify-sos: number of invocations per sosId
  http,         \* the edge function request the last step made, and its answer
  forum_posts,    \* public.forum_posts: sequence of rows, id = index
  forum_comments, \* public.forum_comments: sequence of rows, id = index
  posts,          \* Forum: posts[s] = the upvote counters loadPosts last stored
  comments,       \* Forum: comments[s] = ids of the comments loadComments stored
  legal_resources,  \* public.legal_resources: set of rows
  resources,        \* Legal: the rows loadResources stored, in the order loaded
  searchTerm,       \* Legal: the text of the search box
  selectedCategory, \* Legal: <<>> for null (All Categories), <<c>> for the badge c clicked
  layoutSession,    \* Layout: the user id of its session, or NULL
  layoutIsAdmin,    \* Layout: isAdmin
  roleChecks,       \* Layout: the checkAdminStatus requests in flight
  subscribed,       \* Forum: subscribed[s], the view is mounted and its channel open
  notifications,    \* Forum: change notifications of forum_posts on their way to s
  loadRequests      \* Forum: loadRequests[s] = the loadPosts requests of s in flight

vars == <<users, profiles, user_roles, incidents, sos_alerts, now, actor,
          session, activeAlert, loading, pc, hs, chk, toast, invocations, http,
          forum_posts, forum_comments, posts, comments,
          legal_resources, resources, searchTerm, selectedCategory,
          layoutSession, layoutIsAdmin, roleChecks,
          subscribed, notifications, loadRequests>>

storeVars == <<users, profiles, user_roles, incidents, sos_alerts>>
dashVars == <<session, activeAlert, loading, pc, hs, chk>>
forumVars == <<forum_posts, forum_comments, posts, comments>>
legalVars == <<legal_resources, resources, searchTerm, selectedCategory>>
layoutVars == <<layoutSession, layoutIsAdmin, roleChecks>>
realtimeVars == <<subscribed, notifications, loadRequests>>
viewVars == <<legalVars, layoutVars, realtimeVars>>

\* ------------------------------------------------------------ store: SQL
\* user_id = auth.uid(): NULL = x is never true
SqlEq(a, b) == a # NULL /\ b # NULL /\ a = b

has_role(_user_id, _role) == <<_user_id, _role>> \in user_roles

\* a row deleted by a cascade leaves its id behind: ids are never used again
AlertIds == {i \in DOMAIN sos_alerts : sos_alerts[i].user_id # NULL}
IncidentIds == DOMAIN incidents
\* deleted rows of the forum tables stay in the sequence without a user_id
PostIds == {i \in DOMAIN forum_posts : forum_posts[i].user_id # NULL}
CommentIds == {i \in DOMAIN forum_comments : forum_comments[i].user_id # NULL}

\* Row of sos_alerts as INSERT builds it: unspecified columns take their defaults
NewAlertRow(uid, pos, address, active) ==
  [user_id |-> uid, latitude |-> pos[1], longitude |-> pos[2],
   location_address |-> address, is_active |-> active,
   created_at |-> now, deactivated_at |-> 0]

\* Row of incidents as INSERT builds it
NewIncidentRow(uid, anonymous, status) ==
  [user_id |-> uid, is_anonymous |-> anonymous, status |-> status]

\* ---------------------------------------------------- row-level policies
\* user_roles: "Only admins can manage roles" (FOR ALL), and for SELECT also
\* "Users can view own roles"; a row is <<user_id, role>>
roles_manage_policy(uid, row) == has_role(uid, "admin")
roles_select_policy(uid, row) == SqlEq(uid, row[1]) \/ roles_manage_policy(uid, row)

\* incidents
\* Variant of incidents_select_policy: any role holder reads every row
incidents_select_policy_anyRole(uid, row) ==
  \/ SqlEq(row.user_id, uid)
  \/ row.is_anonymous
  \/ has_role(uid, "admin")
  \/ has_role(uid, "user")

\* "Users can view own incidents or all if admin/moderator"
incidents_select_policy(uid, row) ==
  \/ SqlEq(row.user_id, uid)
  \/ row.is_anonymous
  \/ has_role(uid, "admin")
  \/ has_role(uid, "moderator")
incidents_insert_check(uid, row) == SqlEq(row.user_id, uid) \/ row.is_anonymous = TRUE
\* Variant of incidents_update_policy: anonymous rows are open to every caller
incidents_update_policy_anonymous(uid, row) ==
  \/ SqlEq(row.user_id, uid)
  \/ row.is_anonymous
  \/ has_role(uid, "admin") \/ has_role(uid, "moderator")

\* the two UPDATE policies are permissive: either admits the row
incidents_update_policy(uid, row) ==
  \/ SqlEq(row.user_id, uid)
  \/ has_role(uid, "admin") \/ has_role(uid, "moderator")

\* sos_alerts
sos_select_policy(uid, row) ==
  SqlEq(row.user_id, uid) \/ has_role(uid, "admin")
sos_insert_check(uid, row) == SqlEq(row.user_id, uid)
sos_update_using(uid, row) == SqlEq(row.user_id, uid)

\* ------------------------------------------------- notify-sos edge function
Response(status, body, email) ==
  [status |-> status, body |-> body, email |-> email]

\* Variant of notify_sos: only administrators pass the authorisation check
notify_sos_adminOnly(req, env) ==
  IF req.method = "OPTIONS" THEN Response(200, "ok", NULL)
  ELSE IF req.method # "POST" THEN Response(405, "Method not allowed", NULL)
  ELSE IF req.auth = "" THEN Response(401, "Missing Authorization header", NULL)
  ELSE IF ~env.config THEN
    Response(500, "Missing function environment configuration", NULL)
  ELSE IF ~req.body.valid THEN Response(400, "Invalid JSON body", NULL)
  ELSE IF req.body.id = 0 THEN Response(400, "Missing sosId", NULL)
  ELSE IF req.auth \notin users THEN Response(401, "Unauthorized", NULL)
  ELSE IF req.body.id \notin AlertIds THEN Response(404, "SOS alert not found", NULL)
  ELSE
    LET sos == sos_alerts[req.body.id]
        isAdmin == <<req.auth, "admin">> \in user_roles
    IN  IF ~isAdmin THEN Response(403, "Forbidden", NULL)
        ELSE IF ~env.target THEN Response(400, "Target user email not found", NULL)
        ELSE IF ~env.emailOk THEN Response(502, "Failed to send email", sos.user_id)
        ELSE Response(200, "success", sos.user_id)

\* The request handler.  req.auth is "" (no Authorization header), a user id (a
\* token that resolves to that user) or another string (a token that resolves to
\* nobody); req.body.id = 0 stands for a body without sosId.  env says what the
\* function finds around it: env.config whether every environment variable is
\* set, env.target whether auth.admin.getUserById yields an email, env.emailOk
\* whether the email provider accepts the message.  The answer's email is the
\* recipient of the attempted message, NULL when none is attempted.
notify_sos(req, env) ==
  IF req.method = "OPTIONS" THEN Response(200, "ok", NULL)
  ELSE IF req.method # "POST" THEN Response(405, "Method not allowed", NULL)
  ELSE IF req.auth = "" THEN Response(401, "Missing Authorization header", NULL)
  ELSE IF ~env.config THEN
    Response(500, "Missing function environment configuration", NULL)
  ELSE IF ~req.body.valid THEN Response(400, "Invalid JSON body", NULL)
  ELSE IF req.body.id = 0 THEN Response(400, "Missing sosId", NULL)
  ELSE IF req.auth \notin users THEN Response(401, "Unauthorized", NULL)
  ELSE IF req.body.id \notin AlertIds THEN Response(404, "SOS alert not found", NULL)
  ELSE
    LET sos == sos_alerts[req.body.id]
        isAdmin == <<req.auth, "admin">> \in user_roles
    IN  IF ~isAdmin /\ sos.user_id # req.auth THEN Response(403, "Forbidden", NULL)
        ELSE IF ~env.target THEN Response(400, "Target user email not found", NULL)
        ELSE IF ~env.emailOk THEN Response(502, "Failed to send email", sos.user_id)
        ELSE Response(200, "success", sos.user_id)

\* ------------------------------------- notify-incident-update edge function
\* Variant of notify_incident_update: an unresolvable recipient is an error
notify_incident_update_unresolved400(req, env) ==
  IF req.method = "OPTIONS" THEN Response(200, "ok", NULL)
  ELSE IF req.method # "POST" THEN Response(405, "Method not allowed", NULL)
  ELSE IF req.auth = "" THEN Response(401, "Missing Authorization header", NULL)
  ELSE IF ~env.config THEN
    Response(500, "Missing function environment configuration", NULL)
  ELSE IF ~req.body.valid THEN Response(400, "Invalid JSON body", NULL)
  ELSE IF req.body.id = 0 THEN Response(400, "Missing incidentId", NULL)
  ELSE IF req.auth \notin users THEN Response(401, "Unauthorized", NULL)
  ELSE IF <<req.auth, "admin">> \notin user_roles THEN Response(403, "Forbidden", NULL)
  ELSE IF req.body.id \notin IncidentIds THEN Response(404, "Incident not found", NULL)
  ELSE
    LET incident == incidents[req.body.id]
    IN  IF incident.user_id = NULL THEN
          Response(200, "skipped: anonymous incident", NULL)
        ELSE IF ~env.target THEN Response(400, "Target user email not found", NULL)
        ELSE IF ~env.emailOk THEN Response(502, "Failed to send email", incident.user_id)
        ELSE Response(200, "success", incident.user_id)

\* Variant of notify_incident_update: moderators pass the authorisation check
notify_incident_update_elevated(req, env) ==
  IF req.method = "OPTIONS" THEN Response(200, "ok", NULL)
  ELSE IF req.method # "POST" THEN Response(405, "Method not allowed", NULL)
  ELSE IF req.auth = "" THEN Response(401, "Missing Authorization header", NULL)
  ELSE IF ~env.config THEN
    Response(500, "Missing function environment configuration", NULL)
  ELSE IF ~req.body.valid THEN Response(400, "Invalid JSON body", NULL)
  ELSE IF req.body.id = 0 THEN Response(400, "Missing incidentId", NULL)
  ELSE IF req.auth \notin users THEN Response(401, "Unauthorized", NULL)
  ELSE IF /\ <<req.auth, "admin">> \notin user_roles
             /\ <<req.auth, "moderator">> \notin user_roles
    THEN Response(403, "Forbidden", NULL)
  ELSE IF req.body.id \notin IncidentIds THEN Response(404, "Incident not found", NULL)
  ELSE
    LET incident == incidents[req.body.id]
    IN  IF incident.user_id = NULL THEN
          Response(200, "skipped: anonymous incident", NULL)
        ELSE IF ~env.target THEN Response(200, "skipped: user email not found", NULL)
        ELSE IF ~env.emailOk THEN Response(502, "Failed to send email", incident.user_id)
        ELSE Response(200, "success", incident.user_id)

\* Variant of notify_incident_update: the Authorization header is checked first
notify_incident_update_authFirst(req, env) ==
  IF req.auth = "" THEN Response(401, "Missing Authorization header", NULL)
  ELSE IF req.method = "OPTIONS" THEN Response(200, "ok", NULL)
  ELSE IF req.method # "POST" THEN Response(405, "Method not allowed", NULL)
  ELSE IF ~env.config THEN
    Response(500, "Missing function environment configuration", NULL)
  ELSE IF ~req.body.valid THEN Response(400, "Invalid JSON body", NULL)
  ELSE IF req.body.id = 0 THEN Response(400, "Missing incidentId", NULL)
  ELSE IF req.auth \notin users THEN Response(401, "Unauthorized", NULL)
  ELSE IF <<req.auth, "admin">> \notin user_roles THEN Response(403, "Forbidden", NULL)
  ELSE IF req.body.id \notin IncidentIds THEN Response(404, "Incident not found", NULL)
  ELSE
    LET incident == incidents[req.body.id]
    IN  IF incident.user_id = NULL THEN
          Response(200, "skipped: anonymous incident", NULL)
        ELSE IF ~env.target THEN Response(200, "skipped: user email not found", NULL)
        ELSE IF ~env.emailOk THEN Response(502, "Failed to send email", incident.user_id)
        ELSE Response(200, "success", incident.user_id)

\* The request handler; req.body.id = 0 stands for a body without incidentId
notify_incident_update(req, env) ==
  IF req.method = "OPTIONS" THEN Response(200, "ok", NULL)
  ELSE IF req.method # "POST" THEN Response(405, "Method not allowed", NULL)
  ELSE IF req.auth = "" THEN Response(401, "Missing Authorization header", NULL)
  ELSE IF ~env.config THEN
    Response(500, "Missing function environment configuration", NULL)
  ELSE IF ~req.body.valid THEN Response(400, "Invalid JSON body", NULL)
  ELSE IF req.body.id = 0 THEN Response(400, "Missing incidentId", NULL)
  ELSE IF req.auth \notin users THEN Response(401, "Unauthorized", NULL)
  ELSE IF <<req.auth, "admin">> \notin user_roles THEN Response(403, "Forbidden", NULL)
  ELSE IF req.body.id \notin IncidentIds THEN Response(404, "Incident not found", NULL)
  ELSE
    LET incident == incidents[req.body.id]
    IN  IF incident.user_id = NULL THEN
          Response(200, "skipped: anonymous incident", NULL)
        ELSE IF ~env.target THEN Response(200, "skipped: user email not found", NULL)
        ELSE IF ~env.emailOk THEN Response(502, "Failed to send email", incident.user_id)
        ELSE Response(200, "success", incident.user_id)

\* ------------------------------------------------------ requests, answers
Request(method, auth, valid, id) ==
  [method |-> method, auth |-> auth, body |-> [valid |-> valid, id |-> id]]
Exchange(fn, req, env, res) == [fn |-> fn, req |-> req, env |-> env, res |-> res]
Env(config, target, emailOk) ==
  [config |-> config, target |-> target, emailOk |-> emailOk]
NoExchange ==
  Exchange("none", Request("none", "", FALSE, 0), Env(FALSE, FALSE, FALSE),
           Response(0, "none", NULL))

\* -------------------------------------------------------------- Dashboard
NoCheck == [st |-> "none", data |-> 0]
Toast(s, kind, text) == [session |-> s, kind |-> kind, text |-> text]
NoToast == Toast(NULL, "none", "")
NoLocals == [uid |-> NULL, pos |-> <<0, 0>>, address |-> NULL, alertId |-> 0]

\* The dashboard mounts: getSession().then(...) / the onAuthStateChange callback
\* delivers the session, and checkActiveAlert(session.user.id) is issued
onAuthStateChange(s, u) ==
  /\ u \in users
  /\ session[s] = NULL
  /\ chk[s].st = "none"
  /\ session' = [session EXCEPT ![s] = u]
  /\ chk' = [chk EXCEPT ![s] = [st |-> "sent", data |-> 0]]
  /\ toast' = NoToast
  /\ http' = NoExchange
  /\ UNCHANGED <<storeVars, now, actor, activeAlert, loading, pc, hs, invocations>>
  /\ UNCHANGED forumVars
  /\ UNCHANGED viewVars

\* checkActiveAlert: rows the query selects, newest first, limit 1
ActiveAlertRows(uid) ==
  {i \in AlertIds : /\ sos_select_policy(uid, sos_alerts[i])
                    /\ sos_alerts[i].user_id = uid
                    /\ sos_alerts[i].is_active}

\* Variant of NewestFirst: order("created_at", { ascending: true })
OldestFirst(rows) ==
  {i \in rows : \A j \in rows : sos_alerts[i].created_at <= sos_alerts[j].created_at}

\* order("created_at", { ascending: false }).limit(1)
NewestFirst(rows) ==
  {i \in rows : \A j \in rows : sos_alerts[j].created_at <= sos_alerts[i].created_at}

\* checkActiveAlert, the store answers the query
checkActiveAlert_query(s) ==
  /\ chk[s].st = "sent"
  /\ LET rows == ActiveAlertRows(session[s])
     IN  \/ /\ rows = {}
            /\ chk' = [chk EXCEPT ![s] = [st |-> "done", data |-> 0]]
         \/ \E i \in NewestFirst(rows) :
              chk' = [chk EXCEPT ![s] = [st |-> "done", data |-> i]]
  /\ toast' = NoToast
  /\ http' = NoExchange
  /\ UNCHANGED <<storeVars, now, actor, session, activeAlert, loading, pc, hs,
                 invocations>>
  /\ UNCHANGED forumVars
  /\ UNCHANGED viewVars

\* checkActiveAlert, the response arrives: setActiveAlert(data)
checkActiveAlert(s) ==
  /\ chk[s].st = "done"
  /\ activeAlert' = [activeAlert EXCEPT ![s] = chk[s].data]
  /\ chk' = [chk EXCEPT ![s] = NoCheck]
  /\ toast' = NoToast
  /\ http' = NoExchange
  /\ UNCHANGED <<storeVars, now, actor, session, loading, pc, hs, invocations>>
  /\ UNCHANGED forumVars
  /\ UNCHANGED viewVars

Running == {s \in Sessions : pc[s] # "idle"}

\* handleSOS up to the first await; the button is rendered when activeAlert is
\* null and enabled when loading is false
handleSOS(s) ==
  /\ session[s] # NULL
  /\ activeAlert[s] = 0 /\ ~loading[s]
  /\ pc[s] = "idle"
  /\ Len(sos_alerts) + Cardinality(Running) < MaxAlerts
  /\ loading' = [loading EXCEPT ![s] = TRUE]
  /\ hs' = [hs EXCEPT ![s] = [NoLocals EXCEPT !.uid = session[s]]]
  /\ pc' = [pc EXCEPT ![s] = "geoloc"]
  /\ toast' = NoToast
  /\ http' = NoExchange
  /\ UNCHANGED <<storeVars, now, actor, session, activeAlert, chk, invocations>>
  /\ UNCHANGED forumVars
  /\ UNCHANGED viewVars

\* catch (error) { toast.error(error.message || ...) } finally { setLoading(false) }
handleSOS_catch(s, error) ==
  /\ toast' = Toast(s, "error", error)
  /\ loading' = [loading EXCEPT ![s] = FALSE]
  /\ hs' = [hs EXCEPT ![s] = NoLocals]
  /\ pc' = [pc EXCEPT ![s] = "idle"]
  /\ UNCHANGED viewVars

\* getCurrentPosition resolves
geolocation_ok(s) ==
  /\ pc[s] = "geoloc"
  /\ \E p \in Positions : hs' = [hs EXCEPT ![s].pos = p]
  /\ pc' = [pc EXCEPT ![s] = "geocode"]
  /\ toast' = NoToast
  /\ http' = NoExchange
  /\ UNCHANGED <<storeVars, now, actor, session, activeAlert, loading, chk,
                 invocations>>
  /\ UNCHANGED forumVars
  /\ UNCHANGED viewVars

\* Variant of geolocation_fail: the rejection is swallowed, no toast
geolocation_fail_silent(s) ==
  /\ pc[s] = "geoloc"
  /\ toast' = NoToast
  /\ loading' = [loading EXCEPT ![s] = FALSE]
  /\ hs' = [hs EXCEPT ![s] = NoLocals]
  /\ pc' = [pc EXCEPT ![s] = "idle"]
  /\ http' = NoExchange
  /\ UNCHANGED <<storeVars, now, actor, session, activeAlert, chk, invocations>>
  /\ UNCHANGED forumVars
  /\ UNCHANGED viewVars

\* getCurrentPosition rejects (denied, unavailable, timeout)
geolocation_fail(s) ==
  /\ pc[s] = "geoloc"
  /\ handleSOS_catch(s, "GeolocationPositionError")
  /\ http' = NoExchange
  /\ UNCHANGED <<storeVars, now, actor, session, activeAlert, chk, invocations>>
  /\ UNCHANGED forumVars
  /\ UNCHANGED viewVars

\* What the geocoding answer gives for locationData.display_name: the address,
\* or undefined (stored as NULL) when the answer carries none
Addresses == {display_name, NULL}

\* fetch and response.json() succeed
geocode_ok(s) ==
  /\ pc[s] = "geocode"
  /\ \E a \in Addresses : hs' = [hs EXCEPT ![s].address = a]
  /\ pc' = [pc EXCEPT ![s] = "insert"]
  /\ toast' = NoToast
  /\ http' = NoExchange
  /\ UNCHANGED <<storeVars, now, actor, session, activeAlert, loading, chk,
                 invocations>>
  /\ UNCHANGED forumVars
  /\ UNCHANGED viewVars

\* fetch rejects or response.json() throws
geocode_fail(s) ==
  /\ pc[s] = "geocode"
  /\ handleSOS_catch(s, "geocoding failed")
  /\ http' = NoExchange
  /\ UNCHANGED <<storeVars, now, actor, session, activeAlert, chk, invocations>>
  /\ UNCHANGED forumVars
  /\ UNCHANGED viewVars

\* Variant of sos_insert: the new row supersedes the owner's earlier rows,
\* which are switched off
sos_insert_supersede(row) ==
  Append([i \in AlertIds |->
            IF sos_alerts[i].user_id = row.user_id
            THEN [sos_alerts[i] EXCEPT !.is_active = FALSE, !.deactivated_at = now]
            ELSE sos_alerts[i]],
         row)

\* INSERT INTO sos_alerts
sos_insert(row) == Append(sos_alerts, row)

\* supabase.from("sos_alerts").insert({...}).select().single() succeeds:
\* setActiveAlert(alertData); toast.success(...)
sos_insert_ok(s) ==
  /\ pc[s] = "insert"
  /\ now <= MaxTime
  /\ now' = now + 1
  /\ LET row == NewAlertRow(hs[s].uid, hs[s].pos, hs[s].address, TRUE)
         id == Len(sos_alerts) + 1
     IN  /\ sos_insert_check(session[s], row)
         /\ sos_select_policy(session[s], row)
         /\ sos_alerts' = sos_insert(row)
         /\ activeAlert' = [activeAlert EXCEPT ![s] = id]
         /\ hs' = [hs EXCEPT ![s].alertId = id]
  /\ toast' = Toast(s, "success", "SOS Alert activated")
  /\ pc' = [pc EXCEPT ![s] = "notify"]
  /\ http' = NoExchange
  /\ UNCHANGED <<users, profiles, user_roles, incidents, actor, session, loading,
                 chk, invocations>>
  /\ UNCHANGED forumVars
  /\ UNCHANGED viewVars

\* the insert answers with an error: if (error) throw error
sos_insert_error(s) ==
  /\ pc[s] = "insert"
  /\ handleSOS_catch(s, "insert failed")
  /\ http' = NoExchange
  /\ UNCHANGED <<storeVars, now, actor, session, activeAlert, chk, invocations>>
  /\ UNCHANGED forumVars
  /\ UNCHANGED viewVars

\* What the dispatcher finds when the dashboard calls it: all in order, or the
\* email provider rejecting the message
DashEnvs == {Env(TRUE, TRUE, TRUE), Env(TRUE, TRUE, FALSE)}

\* Variant of handleSOS_notify: a notifyError is thrown into the catch block and
\* the alert that was shown is taken back
handleSOS_notify_throw(s) ==
  /\ pc[s] = "notify"
  /\ \E env \in DashEnvs :
       LET req == Request("POST", session[s], TRUE, hs[s].alertId)
           res == notify_sos(req, env)
       IN  /\ http' = Exchange("notify-sos", req, env, res)
           /\ IF res.status = 200
              THEN toast' = NoToast /\ activeAlert' = activeAlert
              ELSE /\ toast' = Toast(s, "error", "notify failed")
                   /\ activeAlert' = [activeAlert EXCEPT ![s] = 0]
  /\ invocations' = [invocations EXCEPT ![hs[s].alertId] = @ + 1]
  /\ loading' = [loading EXCEPT ![s] = FALSE]
  /\ hs' = [hs EXCEPT ![s] = NoLocals]
  /\ pc' = [pc EXCEPT ![s] = "idle"]
  /\ UNCHANGED <<storeVars, now, actor, session, chk>>
  /\ UNCHANGED forumVars
  /\ UNCHANGED viewVars

\* supabase.functions.invoke("notify-sos", {body: {sosId: alertData.id}}) and
\* its answer: a notifyError is logged to the console; finally setLoading(false)
handleSOS_notify(s) ==
  /\ pc[s] = "notify"
  /\ \E env \in DashEnvs :
       LET req == Request("POST", session[s], TRUE, hs[s].alertId)
       IN  http' = Exchange("notify-sos", req, env, notify_sos(req, env))
  /\ invocations' = [invocations EXCEPT ![hs[s].alertId] = @ + 1]
  /\ loading' = [loading EXCEPT ![s] = FALSE]
  /\ hs' = [hs EXCEPT ![s] = NoLocals]
  /\ pc' = [pc EXCEPT ![s] = "idle"]
  /\ toast' = NoToast
  /\ UNCHANGED <<storeVars, now, actor, session, activeAlert, chk>>
  /\ UNCHANGED forumVars
  /\ UNCHANGED viewVars

\* Variant of sos_deactivate: the update leaves deactivated_at out
sos_deactivate_noStamp(uid, id) ==
  [i \in AlertIds |->
     IF i = id /\ sos_update_using(uid, sos_alerts[i])
     THEN [sos_alerts[i] EXCEPT !.is_active = FALSE]
     ELSE sos_alerts[i]]

\* UPDATE sos_alerts SET is_active = false, deactivated_at = <now> WHERE id = <id>,
\* on the rows the UPDATE policy lets the caller see
sos_deactivate(uid, id) ==
  [i \in AlertIds |->
     IF i = id /\ sos_update_using(uid, sos_alerts[i])
     THEN [sos_alerts[i] EXCEPT !.is_active = FALSE, !.deactivated_at = now]
     ELSE sos_alerts[i]]

\* handleDeactivateSOS, the update succeeds: setActiveAlert(null)
handleDeactivateSOS(s) ==
  /\ activeAlert[s] # 0
  /\ now <= MaxTime
  /\ now' = now + 1
  /\ sos_alerts' = sos_deactivate(session[s], activeAlert[s])
  /\ activeAlert' = [activeAlert EXCEPT ![s] = 0]
  /\ toast' = Toast(s, "success", "SOS Alert deactivated")
  /\ http' = NoExchange
  /\ UNCHANGED <<users, profiles, user_roles, incidents, actor, session, loading,
                 pc, hs, chk, invocations>>
  /\ UNCHANGED forumVars
  /\ UNCHANGED viewVars

\* handleDeactivateSOS, the update answers with an error
handleDeactivateSOS_error(s) ==
  /\ activeAlert[s] # 0
  /\ toast' = Toast(s, "error", "Failed to deactivate alert")
  /\ http' = NoExchange
  /\ UNCHANGED <<storeVars, now, actor, session, activeAlert, loading, pc, hs, chk,
                 invocations>>
  /\ UNCHANGED forumVars
  /\ UNCHANGED viewVars

\* ------------------------------------------------------- the SOS lifecycle
\* Every identity has signed up (handle_new_user gave it a profile and the
\* user role); no dashboard is mounted yet.
InitStore ==
  /\ users = Ids
  /\ profiles = Ids
  /\ user_roles = {<<u, "user">> : u \in Ids}
  /\ incidents = <<>>
  /\ sos_alerts = <<>>
  /\ now = 1
  /\ actor = NULL
  /\ invocations = [i \in 1..MaxAlerts |-> 0]
  /\ http = NoExchange

InitDash ==
  /\ session = [s \in Sessions |-> NULL]
  /\ activeAlert = [s \in Sessions |-> 0]
  /\ loading = [s \in Sessions |-> FALSE]
  /\ pc = [s \in Sessions |-> "idle"]
  /\ hs = [s \in Sessions |-> NoLocals]
  /\ chk = [s \in Sessions |-> NoCheck]
  /\ toast = NoToast

\* the forum tables are empty and no Forum page has loaded anything
InitForum ==
  /\ forum_posts = <<>>
  /\ forum_comments = <<>>
  /\ posts = [s \in Sessions |-> <<>>]
  /\ comments = [s \in Sessions |-> {}]

\* the catalog is empty and the Legal page has loaded nothing
InitLegal ==
  /\ legal_resources = {}
  /\ resources = <<>>
  /\ searchTerm = <<>>
  /\ selectedCategory = <<>>

\* the layout has mounted: no session yet, isAdmin false, nothing in flight
InitLayout ==
  /\ layoutSession = NULL
  /\ layoutIsAdmin = FALSE
  /\ roleChecks = {}

\* no Forum view is mounted, nothing is on its way to one
InitRealtime ==
  /\ subscribed = [s \in Sessions |-> FALSE]
  /\ notifications = [s \in Sessions |-> 0]
  /\ loadRequests = [s \in Sessions |-> <<>>]

InitViews == InitLegal /\ InitLayout /\ InitRealtime

Init == InitStore /\ InitDash /\ InitForum /\ InitViews

Next ==
  \/ \E si \in SignIns : onAuthStateChange(si[1], si[2])
  \/ \E s \in Sessions : checkActiveAlert_query(s)
  \/ \E s \in Sessions : checkActiveAlert(s)
  \/ \E s \in Sessions : handleSOS(s)
  \/ \E s \in Sessions : geolocation_ok(s)
  \/ \E s \in Sessions : geolocation_fail(s)
  \/ \E s \in Sessions : geocode_ok(s)
  \/ \E s \in Sessions : geocode_fail(s)
  \/ \E s \in Sessions : sos_insert_ok(s)
  \/ \E s \in Sessions : sos_insert_error(s)
  \/ \E s \in Sessions : handleSOS_notify(s)
  \/ \E s \in Sessions : handleDeactivateSOS(s)
  \/ \E s \in Sessions : handleDeactivateSOS_error(s)
Spec == Init /\ [][Next]_vars

\* ------------------------------------------- the store and its policies
\* The store as the clients of the REST interface see it: any authenticated
\* identity may send any insert, update or delete; the row-level policies and
\* the constraints of the schema decide which of them take effect.
MaxStoreAlerts == 1     \* rows of sos_alerts inserted through the REST interface

ElevatedRoles == {"moderator", "admin"}

\* Variant of handle_new_user: the profile is created, the role is not
handle_new_user_noRole(u) ==
  /\ profiles' = profiles \cup {u}
  /\ user_roles' = user_roles
  /\ UNCHANGED viewVars

\* AFTER INSERT ON auth.users: handle_new_user()
handle_new_user(u) ==
  /\ profiles' = profiles \cup {u}
  /\ user_roles' = user_roles \cup {<<u, "user">>}
  /\ UNCHANGED viewVars

\* a new identity signs up
SignUp(u) ==
  /\ u \in Ids \ users
  /\ users' = users \cup {u}
  /\ handle_new_user(u)
  /\ actor' = NULL
  /\ toast' = NoToast
  /\ http' = NoExchange
  /\ UNCHANGED <<incidents, sos_alerts, now, dashVars, invocations>>
  /\ UNCHANGED forumVars
  /\ UNCHANGED viewVars

\* incidents.user_id REFERENCES auth.users(id) ON DELETE SET NULL
incidents_on_delete(u) ==
  [i \in IncidentIds |->
     IF incidents[i].user_id = u THEN [incidents[i] EXCEPT !.user_id = NULL]
     ELSE incidents[i]]

\* sos_alerts.user_id REFERENCES auth.users(id) ON DELETE CASCADE
sos_alerts_on_delete(u) ==
  [i \in DOMAIN sos_alerts |->
     IF sos_alerts[i].user_id = u
     THEN [sos_alerts[i] EXCEPT !.user_id = NULL, !.is_active = FALSE]
     ELSE sos_alerts[i]]

\* forum_posts.user_id REFERENCES auth.users(id) ON DELETE CASCADE
forum_posts_on_delete(u) ==
  [i \in DOMAIN forum_posts |->
     IF forum_posts[i].user_id = u THEN [forum_posts[i] EXCEPT !.user_id = NULL]
     ELSE forum_posts[i]]

\* forum_comments: user_id and post_id both ON DELETE CASCADE
forum_comments_on_delete(u) ==
  [i \in DOMAIN forum_comments |->
     IF \/ forum_comments[i].user_id = u
        \/ forum_posts[forum_comments[i].post_id].user_id = u
     THEN [forum_comments[i] EXCEPT !.user_id = NULL]
     ELSE forum_comments[i]]

\* an identity is deleted from auth.users: the referencing rows follow
DeleteIdentity(u) ==
  /\ u \in users
  /\ users' = users \ {u}
  /\ profiles' = profiles \ {u}
  /\ user_roles' = {r \in user_roles : r[1] # u}
  /\ incidents' = incidents_on_delete(u)
  /\ sos_alerts' = sos_alerts_on_delete(u)
  /\ actor' = NULL
  /\ toast' = NoToast
  /\ http' = NoExchange
  /\ UNCHANGED <<now, dashVars, invocations>>
  /\ forum_posts' = forum_posts_on_delete(u)
  /\ forum_comments' = forum_comments_on_delete(u)
  /\ UNCHANGED <<posts, comments>>
  /\ UNCHANGED viewVars

\* Variant of roles_write_allowed: the caller may also write rows about itself
roles_write_allowed_self(uid, row) ==
  roles_manage_policy(uid, row) \/ SqlEq(uid, row[1])

\* user_roles, INSERT / UPDATE / DELETE: the FOR ALL policy is the only one
roles_write_allowed(uid, row) == roles_manage_policy(uid, row)

\* INSERT INTO user_roles (user_id, role)
roles_insert(uid, row) ==
  /\ uid \in users
  /\ row[1] \in users /\ row \notin user_roles
  /\ roles_write_allowed(uid, row)
  /\ user_roles' = user_roles \cup {row}
  /\ actor' = uid
  /\ toast' = NoToast
  /\ http' = NoExchange
  /\ UNCHANGED <<users, profiles, incidents, sos_alerts, now, dashVars, invocations>>
  /\ UNCHANGED forumVars
  /\ UNCHANGED viewVars

\* DELETE FROM user_roles
roles_delete(uid, row) ==
  /\ uid \in users
  /\ row \in user_roles
  /\ roles_write_allowed(uid, row)
  /\ user_roles' = user_roles \ {row}
  /\ actor' = uid
  /\ toast' = NoToast
  /\ http' = NoExchange
  /\ UNCHANGED <<users, profiles, incidents, sos_alerts, now, dashVars, invocations>>
  /\ UNCHANGED forumVars
  /\ UNCHANGED viewVars

\* UPDATE user_roles SET role = <role>
roles_update(uid, row, role) ==
  /\ uid \in users
  /\ row \in user_roles /\ <<row[1], role>> \notin user_roles
  /\ roles_write_allowed(uid, row) /\ roles_write_allowed(uid, <<row[1], role>>)
  /\ user_roles' = (user_roles \ {row}) \cup {<<row[1], role>>}
  /\ actor' = uid
  /\ toast' = NoToast
  /\ http' = NoExchange
  /\ UNCHANGED <<users, profiles, incidents, sos_alerts, now, dashVars, invocations>>
  /\ UNCHANGED forumVars
  /\ UNCHANGED viewVars

\* the statuses the requests of this specification carry
StoreStatuses == {"new"}

IncidentRows ==
  {NewIncidentRow(u, a, st) : u \in users \cup {NULL}, a \in BOOLEAN, st \in StoreStatuses}

\* INSERT INTO incidents
incidents_insert(uid, row) ==
  /\ uid \in users
  /\ Len(incidents) < MaxIncidents
  /\ incidents_insert_check(uid, row)
  /\ incidents' = Append(incidents, row)
  /\ actor' = uid
  /\ toast' = NoToast
  /\ http' = NoExchange
  /\ UNCHANGED <<users, profiles, user_roles, sos_alerts, now, dashVars, invocations>>
  /\ UNCHANGED forumVars
  /\ UNCHANGED viewVars

\* UPDATE incidents SET ... WHERE id = <id>: USING on the old row, and the same
\* expression as WITH CHECK on the new one
incidents_update(uid, id, row) ==
  /\ uid \in users
  /\ row # incidents[id]
  /\ incidents_update_policy(uid, incidents[id])
  /\ incidents_update_policy(uid, row)
  /\ incidents' = [incidents EXCEPT ![id] = row]
  /\ actor' = uid
  /\ toast' = NoToast
  /\ http' = NoExchange
  /\ UNCHANGED <<users, profiles, user_roles, sos_alerts, now, dashVars, invocations>>
  /\ UNCHANGED forumVars
  /\ UNCHANGED viewVars

\* Variant of incidents_delete_policy: the reporter may delete the row
incidents_delete_policy_own(uid, row) == SqlEq(row.user_id, uid)

\* incidents has row-level security enabled and no policy FOR DELETE
incidents_delete_policy(uid, row) == FALSE

\* DELETE FROM incidents WHERE id = <id>, under the policies: a row no policy
\* shows to the caller is left alone, without an error
incidents_delete(uid, id) ==
  /\ uid \in users
  /\ id \in IncidentIds
  /\ incidents' =
       IF incidents_delete_policy(uid, incidents[id])
       THEN [j \in 1..(Len(incidents) - 1) |->
               IF j < id THEN incidents[j] ELSE incidents[j + 1]]
       ELSE incidents
  /\ actor' = uid
  /\ toast' = NoToast
  /\ http' = NoExchange
  /\ UNCHANGED <<users, profiles, user_roles, sos_alerts, now, dashVars, invocations>>
  /\ UNCHANGED forumVars
  /\ UNCHANGED viewVars

AlertRows ==
  {[NewAlertRow(u, p, NULL, a) EXCEPT !.deactivated_at = IF a THEN 0 ELSE now] :
     u \in users, p \in Positions, a \in BOOLEAN}

\* INSERT INTO sos_alerts
sos_alerts_insert(uid, row) ==
  /\ uid \in users
  /\ Len(sos_alerts) < MaxStoreAlerts
  /\ sos_insert_check(uid, row)
  /\ sos_alerts' = Append(sos_alerts, row)
  /\ actor' = uid
  /\ toast' = NoToast
  /\ http' = NoExchange
  /\ UNCHANGED <<users, profiles, user_roles, incidents, now, dashVars, invocations>>
  /\ UNCHANGED forumVars
  /\ UNCHANGED viewVars

\* UPDATE sos_alerts SET ... WHERE id = <id>
sos_alerts_update(uid, id, row) ==
  /\ uid \in users
  /\ row # sos_alerts[id]
  /\ sos_update_using(uid, sos_alerts[id])
  /\ sos_update_using(uid, row)
  /\ sos_alerts' = [sos_alerts EXCEPT ![id] = row]
  /\ actor' = uid
  /\ toast' = NoToast
  /\ http' = NoExchange
  /\ UNCHANGED <<users, profiles, user_roles, incidents, now, dashVars, invocations>>
  /\ UNCHANGED forumVars
  /\ UNCHANGED viewVars

\* The schema is applied and every identity has signed up; the project owner
\* has made u2 an administrator.
InitSeeded ==
  /\ users = Ids
  /\ profiles = Ids
  /\ user_roles = {<<u, "user">> : u \in Ids} \cup {<<"u2", "admin">>}
  /\ incidents = <<>>
  /\ sos_alerts = <<>>
  /\ now = 1
  /\ actor = NULL
  /\ invocations = [i \in 1..MaxAlerts |-> 0]
  /\ http = NoExchange

InitAdmin == InitSeeded /\ InitDash /\ InitForum /\ InitViews

NextStore ==
  \/ \E u \in Ids : SignUp(u)
  \/ \E u \in Ids : DeleteIdentity(u)
  \/ \E uid \in Ids, u \in Ids, r \in ElevatedRoles : roles_insert(uid, <<u, r>>)
  \/ \E uid \in Ids, row \in user_roles : row[2] \in ElevatedRoles /\ roles_delete(uid, row)
  \/ \E uid \in Ids, row \in user_roles, r \in ElevatedRoles :
       row[2] \in ElevatedRoles /\ roles_update(uid, row, r)
  \/ \E uid \in Ids, row \in IncidentRows : incidents_insert(uid, row)
  \/ \E uid \in Ids, id \in IncidentIds, row \in IncidentRows : incidents_update(uid, id, row)
  \/ \E uid \in Ids, row \in AlertRows : sos_alerts_insert(uid, row)
  \/ \E uid \in Ids, id \in AlertIds, row \in AlertRows : sos_alerts_update(uid, id, row)
  \/ \E uid \in Ids, id \in IncidentIds : incidents_delete(uid, id)

SpecStore == InitAdmin /\ [][NextStore]_vars

\* ------------------------------------------------- Incidents and Admin pages
\* Incidents page: getSession / onAuthStateChange hand the page its session
Incidents_onAuthStateChange(s, u) ==
  /\ session[s] = NULL
  /\ u \in users
  /\ session' = [session EXCEPT ![s] = u]
  /\ toast' = NoToast
  /\ http' = NoExchange
  /\ UNCHANGED <<storeVars, now, actor, activeAlert, loading, pc, hs, chk, invocations>>
  /\ UNCHANGED forumVars
  /\ UNCHANGED viewVars

\* The INSERT of handleSubmit is accepted: the policy admits the row and the
\* foreign key on user_id finds its identity
incidents_insert_accepts(uid, row) ==
  /\ incidents_insert_check(uid, row)
  /\ row.user_id = NULL \/ row.user_id \in users

\* Incidents page, handleSubmit with the Anonymous box ticked or not
handleSubmit(s, isAnonymous) ==
  /\ session[s] # NULL
  /\ Len(incidents) < MaxIncidents
  /\ LET row == NewIncidentRow(IF isAnonymous THEN NULL ELSE session[s],
                               isAnonymous, "new")
     IN  IF incidents_insert_accepts(session[s], row)
         THEN /\ incidents' = Append(incidents, row)
              /\ toast' = Toast(s, "success", "Incident reported successfully")
         ELSE /\ incidents' = incidents
              /\ toast' = Toast(s, "error", "insert rejected")
  /\ http' = NoExchange
  /\ UNCHANGED <<users, profiles, user_roles, sos_alerts, now, actor, dashVars, invocations>>
  /\ UNCHANGED forumVars
  /\ UNCHANGED viewVars

\* Variant of incidents_set_status: the status only moves forward
incidents_set_status_forward(uid, id, status) ==
  [i \in IncidentIds |->
     IF /\ i = id
        /\ incidents_update_policy(uid, incidents[i])
        /\ incidents[i].status # "resolved"
     THEN [incidents[i] EXCEPT !.status = status]
     ELSE incidents[i]]

\* UPDATE incidents SET status = <status> WHERE id = <id>, under the policies:
\* a row the policies hide from the caller is left alone, without an error
incidents_set_status(uid, id, status) ==
  [i \in IncidentIds |->
     IF /\ i = id
        /\ incidents_update_policy(uid, incidents[i])
        /\ incidents_update_policy(uid, [incidents[i] EXCEPT !.status = status])
     THEN [incidents[i] EXCEPT !.status = status]
     ELSE incidents[i]]

\* Variant of handleStatusChange: the dispatcher is not invoked
handleStatusChange_noNotify(s, incidentId, newStatus, env) ==
  /\ session[s] # NULL
  /\ incidentId \in IncidentIds
  /\ incidents' = incidents_set_status(session[s], incidentId, newStatus)
  /\ toast' = Toast(s, "success", "Status updated successfully")
  /\ http' = NoExchange
  /\ UNCHANGED <<users, profiles, user_roles, sos_alerts, now, actor, dashVars, invocations>>
  /\ UNCHANGED forumVars
  /\ UNCHANGED viewVars

\* Admin page, handleStatusChange: the update returns no error, the dispatcher
\* is invoked and its answer is only logged
handleStatusChange(s, incidentId, newStatus, env) ==
  /\ session[s] # NULL
  /\ incidentId \in IncidentIds
  /\ incidents' = incidents_set_status(session[s], incidentId, newStatus)
  /\ toast' = Toast(s, "success", "Status updated successfully")
  /\ LET req == Request("POST", session[s], TRUE, incidentId)
     IN  http' = Exchange("notify-incident-update", req, env,
                          notify_incident_update(req, env))
  /\ UNCHANGED <<users, profiles, user_roles, sos_alerts, now, actor, dashVars, invocations>>
  /\ UNCHANGED forumVars
  /\ UNCHANGED viewVars

\* Admin page, handleStatusChange: the update returns an error
handleStatusChange_error(s, incidentId) ==
  /\ session[s] # NULL
  /\ incidentId \in IncidentIds
  /\ toast' = Toast(s, "error", "Failed to update status")
  /\ http' = NoExchange
  /\ UNCHANGED <<storeVars, now, actor, dashVars, invocations>>
  /\ UNCHANGED forumVars
  /\ UNCHANGED viewVars

NextIncidents ==
  \/ \E u \in Ids : SignUp(u)
  \/ \E u \in Ids : DeleteIdentity(u)
  \/ \E si \in SignIns : Incidents_onAuthStateChange(si[1], si[2])
  \/ \E s \in Sessions, a \in BOOLEAN : handleSubmit(s, a)
  \/ \E s \in Sessions, id \in IncidentIds, st \in incident_status, env \in DashEnvs :
       handleStatusChange(s, id, st, env)
  \/ \E s \in Sessions, id \in IncidentIds : handleStatusChange_error(s, id)
  \/ \E uid \in Ids, u \in Ids : roles_insert(uid, <<u, "moderator">>)

SpecIncidents == InitAdmin /\ [][NextIncidents]_vars

\* ------------------------------------------------ calls of the dispatcher
Methods == {"OPTIONS", "GET", "POST"}
\* no header, a token of u1, a token of u2, a token that resolves to nobody
Credentials == {""} \cup Ids \cup {"stale"}
Envs == {Env(c, t, e) : c \in BOOLEAN, t \in BOOLEAN, e \in BOOLEAN}

\* Any client sends any request to the notify-sos endpoint.  The endpoint keeps
\* no state between requests, so the exchanges are observed one at a time.
invoke_notify_sos(req, env) ==
  /\ http = NoExchange
  /\ http' = Exchange("notify-sos", req, env, notify_sos(req, env))
  /\ toast' = NoToast
  /\ UNCHANGED <<storeVars, now, actor, dashVars, invocations>>
  /\ UNCHANGED forumVars
  /\ UNCHANGED viewVars

NextDispatch ==
  \/ \E u \in Ids : DeleteIdentity(u)
  \/ \E uid \in Ids, row \in AlertRows : sos_alerts_insert(uid, row)
  \/ \E uid \in Ids, id \in AlertIds, row \in AlertRows : sos_alerts_update(uid, id, row)
  \/ \E m \in Methods, a \in Credentials, v \in BOOLEAN, id \in 0..MaxAlerts, env \in Envs :
       invoke_notify_sos(Request(m, a, v, id), env)

SpecDispatch == InitAdmin /\ [][NextDispatch]_vars

\* ------------------------------------------- calls of both dispatchers
\* Requests that reach the authorisation step: a POST with a parsable body,
\* bearing a token of u1, a token of u2 or a token that resolves to nobody
EndpointRequests ==
  {Request("POST", a, TRUE, id) : a \in Ids \cup {"stale"}, id \in 0..MaxIncidents}
\* The function's configuration is complete; the recipient's address resolves or
\* not, the email provider accepts the message or not
EndpointEnvs == {Env(TRUE, t, e) : t \in BOOLEAN, e \in BOOLEAN}

\* Any client sends a request to the notify-incident-update endpoint
invoke_notify_incident_update(req, env) ==
  /\ http = NoExchange
  /\ http' = Exchange("notify-incident-update", req, env,
                      notify_incident_update(req, env))
  /\ toast' = NoToast
  /\ UNCHANGED <<storeVars, now, actor, dashVars, invocations>>
  /\ UNCHANGED forumVars
  /\ UNCHANGED viewVars

NextEndpoints ==
  \/ \E u \in Ids : DeleteIdentity(u)
  \/ \E uid \in Ids, u \in Ids : roles_insert(uid, <<u, "moderator">>)
  \/ \E uid \in Ids, row \in IncidentRows : incidents_insert(uid, row)
  \/ \E uid \in Ids, row \in AlertRows : sos_alerts_insert(uid, row)
  \/ \E req \in EndpointRequests, env \in EndpointEnvs : invoke_notify_sos(req, env)
  \/ \E req \in EndpointRequests, env \in EndpointEnvs :
       invoke_notify_incident_update(req, env)

SpecEndpoints == InitAdmin /\ [][NextEndpoints]_vars

\* ---------------------------------------- requests of every method
AllMethods == Methods \cup {"PUT", "DELETE"}
\* the function is configured and its email calls succeed, or none of it
MethodEnvs == {Env(c, c, c) : c \in BOOLEAN}
\* requests of every method, with any credential or none, with a parsable body
\* or not, naming a row that may exist or one that does not
MethodRequests ==
  {Request(m, a, v, id) : m \in AllMethods, a \in Credentials, v \in BOOLEAN, id \in {0, 1}}

\* Any client sends a request of any method to either endpoint, whatever the
\* store holds
NextMethods ==
  \/ \E uid \in Ids, row \in IncidentRows : incidents_insert(uid, row)
  \/ \E uid \in Ids, row \in AlertRows : sos_alerts_insert(uid, row)
  \/ \E req \in MethodRequests, env \in MethodEnvs : invoke_notify_sos(req, env)
  \/ \E req \in MethodRequests, env \in MethodEnvs :
       invoke_notify_incident_update(req, env)

SpecMethods == InitAdmin /\ [][NextMethods]_vars

\* ------------------------------------------------------------------ Forum
MaxPosts == 1        \* rows of forum_posts a behaviour inserts
MaxComments == 1     \* rows of forum_comments a behaviour inserts

\* forum_posts: every policy is TO authenticated
forum_posts_select_policy(uid, row) == uid # NULL
\* Variant of forum_posts_insert_check: any authenticated caller, any author
forum_posts_insert_check_any(uid, row) == uid # NULL
\* "Authenticated users can create posts"
forum_posts_insert_check(uid, row) == SqlEq(row.user_id, uid)
forum_posts_update_policy(uid, row) == SqlEq(row.user_id, uid)
forum_posts_delete_policy(uid, row) == SqlEq(row.user_id, uid)

\* forum_comments
forum_comments_insert_check(uid, row) == SqlEq(row.user_id, uid)
\* Variant of forum_comments_update_policy: every identity updates every comment
forum_comments_update_policy_any(uid, row) == uid # NULL
\* "Users can update own comments"
forum_comments_update_policy(uid, row) == SqlEq(row.user_id, uid)
forum_comments_delete_policy(uid, row) == SqlEq(row.user_id, uid)

\* Row of forum_posts as INSERT builds it from { user_id, title, content }
NewPostRow(uid) ==
  [user_id |-> uid, content |-> "text", upvotes |-> 0,
   created_at |-> now, updated_at |-> now]

\* Row of forum_comments as INSERT builds it
NewCommentRow(uid, postId, content) ==
  [post_id |-> postId, user_id |-> uid, content |-> content]

\* BEFORE UPDATE ON forum_posts: update_updated_at_column()
update_updated_at_column(row) == [row EXCEPT !.updated_at = now]

\* UPDATE forum_posts SET upvotes = <n> WHERE id = <id>, under the policy: a
\* row the policy hides from the caller is left alone, without an error
forum_posts_set_upvotes(uid, id, n) ==
  [i \in DOMAIN forum_posts |->
     IF i = id /\ i \in PostIds /\ forum_posts_update_policy(uid, forum_posts[i])
     THEN update_updated_at_column([forum_posts[i] EXCEPT !.upvotes = n])
     ELSE forum_posts[i]]

\* Forum page: getSession / onAuthStateChange hand the page its session
Forum_onAuthStateChange(s, u) ==
  /\ session[s] = NULL
  /\ u \in users
  /\ session' = [session EXCEPT ![s] = u]
  /\ toast' = NoToast
  /\ http' = NoExchange
  /\ UNCHANGED <<storeVars, now, actor, activeAlert, loading, pc, hs, chk, invocations>>
  /\ UNCHANGED forumVars
  /\ UNCHANGED viewVars

\* what SELECT * FROM forum_posts returns to the caller: id -> upvotes
PostsView(uid) ==
  [i \in {j \in PostIds : forum_posts_select_policy(uid, forum_posts[j])} |->
     forum_posts[i].upvotes]

\* Forum page, loadPosts: called at mount, after the page's own writes and on
\* every change notification of forum_posts, so a load is outstanding whenever
\* the page's list differs from the table
loadPosts(s) ==
  /\ posts[s] # PostsView(session[s])
  /\ posts' = [posts EXCEPT ![s] = PostsView(session[s])]
  /\ toast' = NoToast
  /\ http' = NoExchange
  /\ UNCHANGED <<storeVars, now, actor, dashVars, invocations>>
  /\ UNCHANGED <<forum_posts, forum_comments, comments>>
  /\ UNCHANGED viewVars

\* Forum page, handleCreatePost
handleCreatePost(s) ==
  /\ session[s] # NULL
  /\ Len(forum_posts) < MaxPosts
  /\ now <= MaxTime
  /\ LET row == NewPostRow(session[s])
     IN  IF forum_posts_insert_check(session[s], row) /\ row.user_id \in users
         THEN /\ forum_posts' = Append(forum_posts, row)
              /\ toast' = Toast(s, "success", "Post created successfully")
         ELSE /\ forum_posts' = forum_posts
              /\ toast' = Toast(s, "error", "insert rejected")
  /\ now' = now + 1
  /\ http' = NoExchange
  /\ UNCHANGED <<storeVars, actor, dashVars, invocations>>
  /\ UNCHANGED <<forum_comments, posts, comments>>
  /\ UNCHANGED viewVars

\* Forum page, handleUpvote(post.id, post.upvotes) for a post of the page's list
handleUpvote(s, postId) ==
  /\ postId \in DOMAIN posts[s]
  /\ now <= MaxTime
  /\ forum_posts' = forum_posts_set_upvotes(session[s], postId, posts[s][postId] + 1)
  /\ now' = now + 1
  /\ toast' = NoToast
  /\ http' = NoExchange
  /\ UNCHANGED <<storeVars, actor, dashVars, invocations>>
  /\ UNCHANGED <<forum_comments, posts, comments>>
  /\ UNCHANGED viewVars

\* Forum page, handleUpvote: the update returns an error
handleUpvote_error(s, postId) ==
  /\ postId \in DOMAIN posts[s]
  /\ toast' = Toast(s, "error", "Failed to upvote")
  /\ http' = NoExchange
  /\ UNCHANGED <<storeVars, now, actor, dashVars, invocations>>
  /\ UNCHANGED forumVars
  /\ UNCHANGED viewVars

\* what loadComments(postId) returns
CommentsOf(rows, postId) ==
  {i \in DOMAIN rows : rows[i].user_id # NULL /\ rows[i].post_id = postId}

\* Forum page, handleAddComment on a post of the page's list, followed by the
\* awaited loadComments(postId)
handleAddComment(s, postId) ==
  /\ session[s] # NULL
  /\ postId \in DOMAIN posts[s]
  /\ Len(forum_comments) < MaxComments
  /\ LET row == NewCommentRow(session[s], postId, "text")
     IN  IF /\ forum_comments_insert_check(session[s], row)
            /\ row.user_id \in users /\ postId \in PostIds
         THEN /\ forum_comments' = Append(forum_comments, row)
              /\ comments' = [comments EXCEPT ![s] =
                   (@ \ CommentsOf(forum_comments, postId))
                     \cup CommentsOf(forum_comments', postId)]
              /\ toast' = NoToast
         ELSE /\ UNCHANGED <<forum_comments, comments>>
              /\ toast' = Toast(s, "error", "Failed to add comment")
  /\ http' = NoExchange
  /\ UNCHANGED <<storeVars, now, actor, dashVars, invocations>>
  /\ UNCHANGED <<forum_posts, posts>>
  /\ UNCHANGED viewVars

NextForum ==
  \/ \E si \in SignIns : Forum_onAuthStateChange(si[1], si[2])
  \/ \E s \in Sessions : loadPosts(s)
  \/ \E s \in Sessions : handleCreatePost(s)
  \/ \E s \in Sessions, id \in DOMAIN forum_posts : handleUpvote(s, id)
  \/ \E s \in Sessions, id \in DOMAIN forum_posts : handleUpvote_error(s, id)
  \/ \E s \in Sessions, id \in DOMAIN forum_posts : handleAddComment(s, id)

SpecForum == Init /\ [][NextForum]_vars

\* ------------------------------------- the forum tables and their policies
\* Any authenticated identity may send any insert, update or delete of the
\* forum tables; the policies decide which rows it touches.
Contents == {"text", "edited"}

\* INSERT INTO forum_posts
forum_posts_insert(uid, row) ==
  /\ uid \in users
  /\ Len(forum_posts) < MaxPosts
  /\ forum_posts_insert_check(uid, row) /\ row.user_id \in users
  /\ forum_posts' = Append(forum_posts, row)
  /\ actor' = uid
  /\ toast' = NoToast
  /\ http' = NoExchange
  /\ UNCHANGED <<storeVars, now, dashVars, invocations>>
  /\ UNCHANGED <<forum_comments, posts, comments>>
  /\ UNCHANGED viewVars

UpvoteValues == {0, 1}

\* UPDATE forum_posts SET upvotes = <n> WHERE id = <id>
forum_posts_update(uid, id, n) ==
  /\ uid \in users
  /\ id \in PostIds
  /\ forum_posts' = forum_posts_set_upvotes(uid, id, n)
  /\ actor' = uid
  /\ toast' = NoToast
  /\ http' = NoExchange
  /\ UNCHANGED <<storeVars, now, dashVars, invocations>>
  /\ UNCHANGED <<forum_comments, posts, comments>>
  /\ UNCHANGED viewVars

\* the rows DELETE FROM forum_posts WHERE id = <id> removes for the caller
forum_posts_deleted(uid, id) ==
  {i \in PostIds : i = id /\ forum_posts_delete_policy(uid, forum_posts[i])}

\* DELETE FROM forum_posts WHERE id = <id>; the comments of a deleted post
\* follow it (post_id ... ON DELETE CASCADE)
forum_posts_delete(uid, id) ==
  /\ uid \in users
  /\ id \in PostIds
  /\ forum_posts' =
       [i \in DOMAIN forum_posts |->
          IF i \in forum_posts_deleted(uid, id)
          THEN [forum_posts[i] EXCEPT !.user_id = NULL] ELSE forum_posts[i]]
  /\ forum_comments' =
       [i \in DOMAIN forum_comments |->
          IF forum_comments[i].post_id \in forum_posts_deleted(uid, id)
          THEN [forum_comments[i] EXCEPT !.user_id = NULL] ELSE forum_comments[i]]
  /\ actor' = uid
  /\ toast' = NoToast
  /\ http' = NoExchange
  /\ UNCHANGED <<storeVars, now, dashVars, invocations>>
  /\ UNCHANGED <<posts, comments>>
  /\ UNCHANGED viewVars

CommentRows ==
  {NewCommentRow(u, p, c) : u \in users, p \in PostIds, c \in Contents}

\* INSERT INTO forum_comments
forum_comments_insert(uid, row) ==
  /\ uid \in users
  /\ Len(forum_comments) < MaxComments
  /\ forum_comments_insert_check(uid, row)
  /\ forum_comments' = Append(forum_comments, row)
  /\ actor' = uid
  /\ toast' = NoToast
  /\ http' = NoExchange
  /\ UNCHANGED <<storeVars, now, dashVars, invocations>>
  /\ UNCHANGED <<forum_posts, posts, comments>>
  /\ UNCHANGED viewVars

\* UPDATE forum_comments SET content = <content> WHERE id = <id>: USING on the
\* old row, the same expression as WITH CHECK on the new one
forum_comments_update(uid, id, content) ==
  /\ uid \in users
  /\ id \in CommentIds
  /\ forum_comments' =
       [i \in DOMAIN forum_comments |->
          IF /\ i = id
             /\ forum_comments_update_policy(uid, forum_comments[i])
             /\ forum_comments_update_policy(uid, [forum_comments[i] EXCEPT !.content = content])
          THEN [forum_comments[i] EXCEPT !.content = content]
          ELSE forum_comments[i]]
  /\ actor' = uid
  /\ toast' = NoToast
  /\ http' = NoExchange
  /\ UNCHANGED <<storeVars, now, dashVars, invocations>>
  /\ UNCHANGED <<forum_posts, posts, comments>>
  /\ UNCHANGED viewVars

\* DELETE FROM forum_comments WHERE id = <id>
forum_comments_delete(uid, id) ==
  /\ uid \in users
  /\ id \in CommentIds
  /\ forum_comments' =
       [i \in DOMAIN forum_comments |->
          IF i = id /\ forum_comments_delete_policy(uid, forum_comments[i])
          THEN [forum_comments[i] EXCEPT !.user_id = NULL]
          ELSE forum_comments[i]]
  /\ actor' = uid
  /\ toast' = NoToast
  /\ http' = NoExchange
  /\ UNCHANGED <<storeVars, now, dashVars, invocations>>
  /\ UNCHANGED <<forum_posts, posts, comments>>
  /\ UNCHANGED viewVars

NextForumStore ==
  \/ \E u \in Ids : SignUp(u)
  \/ \E u \in Ids : DeleteIdentity(u)
  \/ \E uid \in Ids, u \in Ids : forum_posts_insert(uid, NewPostRow(u))
  \/ \E uid \in Ids, id \in PostIds, n \in UpvoteValues : forum_posts_update(uid, id, n)
  \/ \E uid \in Ids, id \in PostIds : forum_posts_delete(uid, id)
  \/ \E uid \in Ids, row \in CommentRows : forum_comments_insert(uid, row)
  \/ \E uid \in Ids, id \in CommentIds, c \in Contents : forum_comments_update(uid, id, c)
  \/ \E uid \in Ids, id \in CommentIds : forum_comments_delete(uid, id)

SpecForumStore == Init /\ [][NextForumStore]_vars

\* UPDATE forum_posts SET user_id = <u> WHERE id = <id>: USING on the old row,
\* the same expression as WITH CHECK on the new one
forum_posts_reassign(uid, id, u) ==
  /\ uid \in users
  /\ id \in PostIds
  /\ forum_posts' =
       [i \in DOMAIN forum_posts |->
          IF /\ i = id
             /\ forum_posts_update_policy(uid, forum_posts[i])
             /\ forum_posts_update_policy(uid, [forum_posts[i] EXCEPT !.user_id = u])
          THEN update_updated_at_column([forum_posts[i] EXCEPT !.user_id = u])
          ELSE forum_posts[i]]
  /\ actor' = uid
  /\ toast' = NoToast
  /\ http' = NoExchange
  /\ UNCHANGED <<storeVars, now, dashVars, invocations>>
  /\ UNCHANGED <<forum_comments, posts, comments>>
  /\ UNCHANGED viewVars

\* UPDATE forum_comments SET user_id = <u> WHERE id = <id>
forum_comments_reassign(uid, id, u) ==
  /\ uid \in users
  /\ id \in CommentIds
  /\ forum_comments' =
       [i \in DOMAIN forum_comments |->
          IF /\ i = id
             /\ forum_comments_update_policy(uid, forum_comments[i])
             /\ forum_comments_update_policy(uid, [forum_comments[i] EXCEPT !.user_id = u])
          THEN [forum_comments[i] EXCEPT !.user_id = u]
          ELSE forum_comments[i]]
  /\ actor' = uid
  /\ toast' = NoToast
  /\ http' = NoExchange
  /\ UNCHANGED <<storeVars, now, dashVars, invocations>>
  /\ UNCHANGED <<forum_posts, posts, comments>>
  /\ UNCHANGED viewVars

\* The Forum page's inserts together with the inserts and re-attributions any
\* authenticated identity may request of the store
NextForumAuthors ==
  \/ \E si \in SignIns : Forum_onAuthStateChange(si[1], si[2])
  \/ \E s \in Sessions : loadPosts(s)
  \/ \E s \in Sessions : handleCreatePost(s)
  \/ \E s \in Sessions, id \in DOMAIN forum_posts : handleAddComment(s, id)
  \/ \E uid \in Ids, u \in Ids : forum_posts_insert(uid, NewPostRow(u))
  \/ \E uid \in Ids, row \in CommentRows : forum_comments_insert(uid, row)
  \/ \E uid \in Ids, id \in PostIds, u \in Ids : forum_posts_reassign(uid, id, u)
  \/ \E uid \in Ids, id \in CommentIds, u \in Ids : forum_comments_reassign(uid, id, u)

SpecForumAuthors == Init /\ [][NextForumAuthors]_vars

\* ============================================ Forum view, realtime refresh
MaxLoads == 2     \* loadPosts requests of one view in flight at once
MaxNotes == 1     \* change notifications on their way to one view at once

\* the views observed
Viewers == {"s1"}

\* a loadPosts request: sent, then answered with data
LoadRequest(st, data) == [st |-> st, data |-> data]

\* loadPosts(): the request is sent
loadPosts_send(s) == [loadRequests EXCEPT ![s] = Append(@, LoadRequest("sent", <<>>))]

\* the sequence without its i-th element
Without(seq, i) == SubSeq(seq, 1, i - 1) \o SubSeq(seq, i + 1, Len(seq))

\* Forum view, the effect at mount: loadPosts() and the subscription to the
\* changes of forum_posts; the client holds the credential of session[s]
Forum_mount(s) ==
  /\ ~subscribed[s] /\ session[s] # NULL
  /\ Len(loadRequests[s]) < MaxLoads
  /\ subscribed' = [subscribed EXCEPT ![s] = TRUE]
  /\ posts' = [posts EXCEPT ![s] = <<>>]
  /\ loadRequests' = loadPosts_send(s)
  /\ toast' = NoToast
  /\ http' = NoExchange
  /\ UNCHANGED <<storeVars, now, actor, dashVars, invocations>>
  /\ UNCHANGED <<forum_posts, forum_comments, comments>>
  /\ UNCHANGED <<legalVars, layoutVars, notifications>>

\* Forum view, the effect's cleanup: removeChannel(channel); the answers of
\* the requests still in flight go to a component that is gone
Forum_unmount(s) ==
  /\ subscribed[s]
  /\ subscribed' = [subscribed EXCEPT ![s] = FALSE]
  /\ notifications' = [notifications EXCEPT ![s] = 0]
  /\ loadRequests' = [loadRequests EXCEPT ![s] = <<>>]
  /\ toast' = NoToast
  /\ http' = NoExchange
  /\ UNCHANGED <<storeVars, now, actor, dashVars, invocations, forumVars>>
  /\ UNCHANGED <<legalVars, layoutVars>>

\* supabase_realtime publishes a change of forum_posts to every open channel
postgres_changes ==
  /\ \A s \in Sessions : subscribed[s] => notifications[s] < MaxNotes
  /\ notifications' =
       [s \in Sessions |-> IF subscribed[s] THEN notifications[s] + 1
                           ELSE notifications[s]]

\* an identity inserts a post of its own; the change is published
forum_posts_INSERT(uid) ==
  /\ uid \in users
  /\ Len(forum_posts) < MaxPosts
  /\ now <= MaxTime
  /\ forum_posts_insert_check(uid, NewPostRow(uid))
  /\ forum_posts' = Append(forum_posts, NewPostRow(uid))
  /\ now' = now + 1
  /\ postgres_changes
  /\ actor' = uid
  /\ toast' = NoToast
  /\ http' = NoExchange
  /\ UNCHANGED <<storeVars, dashVars, invocations>>
  /\ UNCHANGED <<forum_comments, posts, comments>>
  /\ UNCHANGED <<legalVars, layoutVars, subscribed, loadRequests>>

\* the author raises the counter of a post by one; the change is published
forum_posts_UPDATE(uid, id) ==
  /\ uid \in users
  /\ id \in PostIds
  /\ now <= MaxTime
  /\ forum_posts_update_policy(uid, forum_posts[id])
  /\ forum_posts' = forum_posts_set_upvotes(uid, id, forum_posts[id].upvotes + 1)
  /\ now' = now + 1
  /\ postgres_changes
  /\ actor' = uid
  /\ toast' = NoToast
  /\ http' = NoExchange
  /\ UNCHANGED <<storeVars, dashVars, invocations>>
  /\ UNCHANGED <<forum_comments, posts, comments>>
  /\ UNCHANGED <<legalVars, layoutVars, subscribed, loadRequests>>

\* Forum view, the channel's callback: () => { loadPosts(); }
channel_callback(s) ==
  /\ subscribed[s] /\ notifications[s] > 0
  /\ Len(loadRequests[s]) < MaxLoads
  /\ notifications' = [notifications EXCEPT ![s] = @ - 1]
  /\ loadRequests' = loadPosts_send(s)
  /\ toast' = NoToast
  /\ http' = NoExchange
  /\ UNCHANGED <<storeVars, now, actor, dashVars, invocations, forumVars>>
  /\ UNCHANGED <<legalVars, layoutVars, subscribed>>

\* loadPosts, the store answers the i-th request in flight: created_at is
\* never updated, so the rows of an answer determine their order newest first
loadPosts_query(s, i) ==
  /\ i \in DOMAIN loadRequests[s] /\ loadRequests[s][i].st = "sent"
  /\ loadRequests' = [loadRequests EXCEPT ![s][i] = LoadRequest("done", PostsView(session[s]))]
  /\ toast' = NoToast
  /\ http' = NoExchange
  /\ UNCHANGED <<storeVars, now, actor, dashVars, invocations, forumVars>>
  /\ UNCHANGED <<legalVars, layoutVars, subscribed, notifications>>

\* loadPosts, the answer of the i-th request arrives: setPosts(data || [])
loadPosts_response(s, i) ==
  /\ i \in DOMAIN loadRequests[s] /\ loadRequests[s][i].st = "done"
  /\ posts' = [posts EXCEPT ![s] = loadRequests[s][i].data]
  /\ loadRequests' = [loadRequests EXCEPT ![s] = Without(@, i)]
  /\ toast' = NoToast
  /\ http' = NoExchange
  /\ UNCHANGED <<storeVars, now, actor, dashVars, invocations>>
  /\ UNCHANGED <<forum_posts, forum_comments, comments>>
  /\ UNCHANGED <<legalVars, layoutVars, subscribed, notifications>>

NextRealtime ==
  \/ \E si \in SignIns : Forum_onAuthStateChange(si[1], si[2])
  \/ \E s \in Viewers : Forum_mount(s)
  \/ \E s \in Viewers : Forum_unmount(s)
  \/ \E uid \in Ids : forum_posts_INSERT(uid)
  \/ \E uid \in Ids, id \in PostIds : forum_posts_UPDATE(uid, id)
  \/ \E s \in Viewers : channel_callback(s)
  \/ \E s \in Viewers, i \in 1..MaxLoads : loadPosts_query(s, i)
  \/ \E s \in Viewers, i \in 1..MaxLoads : loadPosts_response(s, i)

SpecRealtime == Init /\ [][NextRealtime]_vars

\* ================================================================ Legal page
MaxResources == 2     \* rows of legal_resources

\* Strings are sequences of UTF-16 code units: 65 is "A", 97 is "a", 98 is "b"
LegalCategories == {<<>>, <<97>>, <<98>>}
LegalTitles == {<<65, 98>>, <<98, 97>>}
LegalContents == {<<97, 97>>, <<98>>}
SearchTerms == {<<>>, <<65>>, <<97, 98>>, <<98, 65>>}

\* String.prototype.toLowerCase on the code units used here
toLowerCase(str) ==
  [i \in DOMAIN str |-> IF str[i] \in 65..90 THEN str[i] + 32 ELSE str[i]]

\* String.prototype.includes
includes(str, searchString) ==
  \E i \in 0..(Len(str) - Len(searchString)) :
     SubSeq(str, i + 1, i + Len(searchString)) = searchString

\* the tables legal_resources can hold: category, title, content NOT NULL
Catalogs ==
  UNION {{ {[id |-> i, category |-> f[i][1], title |-> f[i][2], content |-> f[i][3]] :
              i \in 1..n} :
           f \in [1..n -> LegalCategories \X LegalTitles \X LegalContents]} :
         n \in 0..MaxResources}

\* "Anyone can view legal resources", TO authenticated
legal_resources_select_policy(uid, row) == uid # NULL

RECURSIVE StrLess(_, _)
\* text order by code unit
StrLess(a, b) ==
  IF b = <<>> THEN FALSE
  ELSE IF a = <<>> THEN TRUE
  ELSE IF a[1] # b[1] THEN a[1] < b[1]
  ELSE StrLess(Tail(a), Tail(b))

\* ORDER BY category, title
OrderedByCategoryTitle(seq) ==
  \A i, j \in DOMAIN seq :
     i < j => /\ ~StrLess(seq[j].category, seq[i].category)
              /\ seq[i].category = seq[j].category
                   => ~StrLess(seq[j].title, seq[i].title)

\* what select("*").order("category").order("title") may return to uid
ResourcesView(uid) ==
  LET visible == {r \in legal_resources : legal_resources_select_policy(uid, r)}
  IN  {seq \in [1..Cardinality(visible) -> visible] :
         /\ \A i, j \in DOMAIN seq : seq[i] = seq[j] => i = j
         /\ OrderedByCategoryTitle(seq)}

\* Legal page, loadResources with the page's credential: setResources(data || [])
loadResources(uid) ==
  /\ resources' \in ResourcesView(uid)
  /\ toast' = NoToast
  /\ http' = NoExchange
  /\ UNCHANGED <<storeVars, now, actor, dashVars, invocations, forumVars, layoutVars, realtimeVars>>
  /\ UNCHANGED <<legal_resources, searchTerm, selectedCategory>>

\* Legal page, the search box: setSearchTerm(e.target.value)
setSearchTerm(value) ==
  /\ searchTerm' = value
  /\ toast' = NoToast
  /\ http' = NoExchange
  /\ UNCHANGED <<storeVars, now, actor, dashVars, invocations, forumVars, layoutVars, realtimeVars>>
  /\ UNCHANGED <<legal_resources, resources, selectedCategory>>

\* Legal page: Array.from(new Set(resources.map((r) => r.category)))
categories == {resources[i].category : i \in DOMAIN resources}

\* Legal page, a badge: setSelectedCategory(null) or setSelectedCategory(category)
setSelectedCategory(selection) ==
  /\ selection \in {<<>>} \cup {<<c>> : c \in categories}
  /\ selectedCategory' = selection
  /\ toast' = NoToast
  /\ http' = NoExchange
  /\ UNCHANGED <<storeVars, now, actor, dashVars, invocations, forumVars, layoutVars, realtimeVars>>
  /\ UNCHANGED <<legal_resources, resources, searchTerm>>

\* !selectedCategory: null and the empty string are both falsy
NoCategory(selection) == selection = <<>> \/ selection[1] = <<>>

\* Legal page, filteredResources
filteredResources ==
  LET matchesSearch(resource) ==
        \/ includes(toLowerCase(resource.title), toLowerCase(searchTerm))
        \/ includes(toLowerCase(resource.content), toLowerCase(searchTerm))
      matchesCategory(resource) ==
        NoCategory(selectedCategory) \/ resource.category = selectedCategory[1]
      test(resource) == matchesSearch(resource) /\ matchesCategory(resource)
  IN  SelectSeq(resources, test)

\* The catalog was seeded at deployment; the Legal page has loaded nothing
InitCatalog ==
  /\ InitStore /\ InitDash /\ InitForum
  /\ legal_resources \in Catalogs
  /\ resources = <<>>
  /\ searchTerm = <<>>
  /\ selectedCategory = <<>>
  /\ InitLayout /\ InitRealtime

NextLegal ==
  \/ \E uid \in Ids \cup {NULL} : loadResources(uid)
  \/ \E value \in SearchTerms : setSearchTerm(value)
  \/ \E c \in LegalCategories : setSelectedCategory(<<c>>)
  \/ setSelectedCategory(<<>>)

SpecLegal == InitCatalog /\ [][NextLegal]_vars


\* ===================================================================== Layout
MaxChecks == 2     \* checkAdminStatus requests in flight at once

\* a checkAdminStatus(userId) request: sent, then answered with data
RoleCheck(userId, st, data) == [userId |-> userId, st |-> st, data |-> data]

\* Layout: the onAuthStateChange callback (and getSession().then) with a
\* session: setSession(session); checkAdminStatus(session.user.id)
Layout_onAuthStateChange(u) ==
  /\ u \in users
  /\ layoutSession' = u
  /\ Cardinality(roleChecks \cup {RoleCheck(u, "sent", FALSE)}) <= MaxChecks
  /\ roleChecks' = roleChecks \cup {RoleCheck(u, "sent", FALSE)}
  /\ toast' = NoToast
  /\ http' = NoExchange
  /\ UNCHANGED <<storeVars, now, actor, dashVars, invocations, forumVars, legalVars, realtimeVars>>
  /\ UNCHANGED layoutIsAdmin

\* Layout: the onAuthStateChange callback without a session: setSession(null);
\* setIsAdmin(false)
Layout_onSignOut ==
  /\ layoutSession # NULL
  /\ layoutSession' = NULL
  /\ layoutIsAdmin' = FALSE
  /\ toast' = NoToast
  /\ http' = NoExchange
  /\ UNCHANGED <<storeVars, now, actor, dashVars, invocations, forumVars, legalVars, realtimeVars>>
  /\ UNCHANGED roleChecks

\* Variant of hasAdminRow: any elevated role counts
hasAdminRow_elevated(userId) ==
  \E row \in user_roles :
     /\ roles_select_policy(userId, row)
     /\ row[1] = userId /\ row[2] \in {"admin", "moderator"}

\* from("user_roles").select("role").eq("user_id", userId).eq("role", "admin")
\* .maybeSingle(), sent with the credential of userId: !!data
hasAdminRow(userId) ==
  \E row \in user_roles :
     /\ roles_select_policy(userId, row)
     /\ row[1] = userId /\ row[2] = "admin"

\* checkAdminStatus, the store answers the query
checkAdminStatus_query(c) ==
  /\ c \in roleChecks /\ c.st = "sent"
  /\ roleChecks' = (roleChecks \ {c}) \cup {RoleCheck(c.userId, "done", hasAdminRow(c.userId))}
  /\ toast' = NoToast
  /\ http' = NoExchange
  /\ UNCHANGED <<storeVars, now, actor, dashVars, invocations, forumVars, legalVars, realtimeVars>>
  /\ UNCHANGED <<layoutSession, layoutIsAdmin>>

\* checkAdminStatus, the response arrives: setIsAdmin(!!data)
checkAdminStatus(c) ==
  /\ c \in roleChecks /\ c.st = "done"
  /\ layoutIsAdmin' = c.data
  /\ roleChecks' = roleChecks \ {c}
  /\ toast' = NoToast
  /\ http' = NoExchange
  /\ UNCHANGED <<storeVars, now, actor, dashVars, invocations, forumVars, legalVars, realtimeVars>>
  /\ UNCHANGED layoutSession

\* Layout: navItems, by path
navItems ==
  {"/", "/incidents", "/forum", "/legal", "/profile"}
    \cup (IF layoutIsAdmin THEN {"/admin"} ELSE {})

\* Layout: without a session only the children are rendered, with one the
\* header with the NavLinks as well
NavLinks == IF layoutSession = NULL THEN {} ELSE navItems

RoleChecks ==
  {RoleCheck(u, "sent", FALSE) : u \in Ids}
    \cup {RoleCheck(u, "done", d) : u \in Ids, d \in BOOLEAN}

NextLayout ==
  \/ \E u \in Ids : Layout_onAuthStateChange(u)
  \/ Layout_onSignOut
  \/ \E c \in RoleChecks : checkAdminStatus_query(c)
  \/ \E c \in RoleChecks : checkAdminStatus(c)
  \/ \E uid \in Ids, u \in Ids : roles_insert(uid, <<u, "moderator">>)

SpecLayout == InitAdmin /\ [][NextLayout]_vars


\* ===================================================== SOS alert lifecycle
ActiveRows(u) == {i \in AlertIds : sos_alerts[i].user_id = u /\ sos_alerts[i].is_active}

\* C1: every SOS alert row has deactivated_at non-null if and only if is_active
\* is false, whatever Activate and Deactivate calls the sessions have made.
C1_DeactivatedIffInactive ==
  \A i \in AlertIds :
    (sos_alerts[i].deactivated_at # 0) <=> (sos_alerts[i].is_active = FALSE)

\* C1 witness: one alert has been deactivated while another is still active
C1_Witness ==
  \E i, j \in AlertIds :
    /\ ~sos_alerts[i].is_active /\ sos_alerts[i].deactivated_at # 0
    /\ sos_alerts[j].is_active /\ sos_alerts[j].deactivated_at = 0

\* C5 (as claimed): at every moment every identity owns at most one alert row
\* with is_active = true.
C5_AtMostOneActive ==
  \A u \in Ids : Cardinality(ActiveRows(u)) <= 1

\* C5 (amended): Activate is not deduplicated.  A step gives an identity at most
\* one more active row, and only by inserting one new row at the end of the
\* table, every existing row staying as it was; no step switches an existing row
\* back on.  So an identity may own several active rows at once.
C5_ActivateAddsOneRow ==
  [][\A u \in Ids :
       LET before == ActiveRows(u)
           after == ActiveRows(u)'
       IN  after \ before # {} =>
             /\ Len(sos_alerts') = Len(sos_alerts) + 1
             /\ after \ before = {Len(sos_alerts')}
             /\ \A i \in AlertIds : sos_alerts'[i] = sos_alerts[i]]_vars

\* C5 witness: one identity owns two active rows, activated from two sessions
C5_Witness ==
  \E u \in Ids :
    /\ Cardinality(ActiveRows(u)) = 2
    /\ \A s \in Sessions : session[s] = u /\ activeAlert[s] # 0
    /\ activeAlert["s1"] # activeAlert["s2"]

\* C6 (as claimed): when reverse geocoding fails during Activate, the handler
\* goes on: the step that ends the geocoding await leads to the insert of the
\* alert row, and no error is shown.
C6_GeocodeFailureDegrades ==
  [][\A s \in Sessions :
       (pc[s] = "geocode" /\ pc'[s] # "geocode") =>
         (pc'[s] = "insert" /\ toast'.kind # "error")]_vars

\* C7: when geolocation acquisition fails during Activate, no sos_alerts row is
\* written, the dispatcher is not invoked, activeAlert is unchanged, and an
\* error is shown; the handler is over.
C7_GeolocationFailureAborts ==
  [][\A s \in Sessions :
       (pc[s] = "geoloc" /\ pc'[s] = "idle") =>
         /\ sos_alerts' = sos_alerts
         /\ invocations' = invocations
         /\ http' = NoExchange
         /\ activeAlert' = activeAlert
         /\ toast'.session = s /\ toast'.kind = "error"
         /\ ~loading'[s]]_vars

\* C7 witness: a geolocation failure has just been reported in a session
C7_Witness ==
  \E s \in Sessions :
    /\ toast = Toast(s, "error", "GeolocationPositionError")
    /\ pc[s] = "idle" /\ ~loading[s] /\ activeAlert[s] = 0

\* C8 (as claimed): once an SOS alert has is_active = false, no later step
\* changes any of its fields.
C8_InactiveIsImmutable ==
  [][\A i \in AlertIds :
       ~sos_alerts[i].is_active => sos_alerts'[i] = sos_alerts[i]]_vars

\* C9: every inserted alert is dispatched at most once, and exactly once as soon
\* as the handler that inserted it is over; the dispatch follows the insert; a
\* failed dispatch changes no alert row, keeps activeAlert, shows no toast and
\* ends the handler, so it is not retried.
C9_Inv ==
  \A i \in 1..MaxAlerts :
    /\ invocations[i] <= 1
    /\ invocations[i] = 1 => i \in AlertIds
    /\ i \in AlertIds =>
         (invocations[i] = 0 <=> \E s \in Sessions : pc[s] = "notify" /\ hs[s].alertId = i)

C9_Step ==
  /\ \A s \in Sessions :
       (pc[s] = "notify" /\ pc'[s] # "notify") =>
         /\ http'.fn = "notify-sos" /\ http'.req.body.id = hs[s].alertId
         /\ invocations' = [invocations EXCEPT ![hs[s].alertId] = @ + 1]
         /\ sos_alerts' = sos_alerts
         /\ activeAlert' = activeAlert
         /\ toast' = NoToast
         /\ pc'[s] = "idle" /\ ~loading'[s]
  /\ invocations' # invocations => \E s \in Sessions : pc[s] = "notify"

C9_DispatchOnceFireAndForget == []C9_Inv /\ [][C9_Step]_vars

\* C9 witness: the dispatch of an alert has just failed; the alert is still
\* active and still held by the session that raised it
C9_Witness ==
  /\ http.fn = "notify-sos" /\ http.res.status = 502
  /\ \E s \in Sessions :
       /\ activeAlert[s] = http.req.body.id
       /\ pc[s] = "idle"
       /\ sos_alerts[activeAlert[s]].is_active
       /\ invocations[activeAlert[s]] = 1

\* ============================================================== incidents
\* C2: in every state reached by incident submissions (anonymous or not),
\* incident updates and identity deletions, every incident row has user_id
\* null if and only if is_anonymous is true
C2_UserNullIffAnonymous ==
  \A i \in IncidentIds : (incidents[i].user_id = NULL) <=> incidents[i].is_anonymous

\* ======================================================= row-level policies
Roles(u) == {r[2] : r \in {x \in user_roles : x[1] = u}}
Ordinary(u) == u \in users /\ Roles(u) = {"user"}

\* C3: under the SELECT policies of incidents, sos_alerts and user_roles an
\* identity holding only the user role reads no non-anonymous incident
\* reported by another identity, no SOS alert owned by another identity and no
\* role assignment of another identity, in any reachable store state
C3_OrdinaryReadsOnlyOwn ==
  \A u \in Ids : Ordinary(u) =>
    /\ \A i \in IncidentIds :
         (~incidents[i].is_anonymous /\ incidents[i].user_id # u)
           => ~incidents_select_policy(u, incidents[i])
    /\ \A i \in AlertIds :
         sos_alerts[i].user_id # u => ~sos_select_policy(u, sos_alerts[i])
    /\ \A r \in user_roles : r[1] # u => ~roles_select_policy(u, r)

\* C3 witness: u1 is ordinary while u2 has a non-anonymous incident, an SOS
\* alert and an elevated role, all of which the administrator can read
C3_Witness ==
  /\ Ordinary("u1")
  /\ \E i \in IncidentIds :
       /\ incidents[i].user_id = "u2" /\ ~incidents[i].is_anonymous
       /\ incidents_select_policy("u2", incidents[i])
  /\ \E i \in AlertIds :
       sos_alerts[i].user_id = "u2" /\ sos_select_policy("u2", sos_alerts[i])
  /\ <<"u2", "admin">> \in user_roles
  /\ roles_select_policy("u2", <<"u1", "user">>)

\* C4: a store operation of an identity that does not hold the administrator
\* role creates, changes or deletes no role assignment; a role assignment
\* appears only by an administrator's operation or as the user role of a signup
C4_OnlyAdminsWriteRoles ==
  [][/\ (actor' \in Ids /\ ~has_role(actor', "admin")) => user_roles' = user_roles
     /\ \A r \in user_roles' \ user_roles :
          \/ actor' \in Ids /\ has_role(actor', "admin")
          \/ actor' = NULL /\ r[2] = "user" /\ r[1] \notin users]_vars

\* C4 witness: the moderator u1, not an administrator, has just updated the
\* incident of u2, and still holds exactly the roles it was given
C4_Witness ==
  /\ actor = "u1"
  /\ Roles("u1") = {"user", "moderator"}
  /\ \E i \in IncidentIds : incidents[i].user_id = "u2" /\ ~incidents[i].is_anonymous

\* ============================================================== dispatcher
\* the request passes the method, credential, configuration and body checks
PassesChecks(x) ==
  /\ x.req.method = "POST"
  /\ x.req.auth \in users
  /\ x.env.config
  /\ x.req.body.valid /\ x.req.body.id # 0

CallerMaySend(x) ==
  \/ <<x.req.auth, "admin">> \in user_roles
  \/ sos_alerts[x.req.body.id].user_id = x.req.auth

\* C10 as stated: a notify-sos request that passes the checks gets 404 when no
\* alert has the id, 200 {success:true} with the email sent when the caller
\* owns the alert or is an administrator, and 403 without email otherwise
C10_OwnerOrAdminAlwaysSends ==
  (http.fn = "notify-sos" /\ PassesChecks(http)) =>
    IF http.req.body.id \notin AlertIds THEN http.res.status = 404
    ELSE IF CallerMaySend(http)
      THEN /\ http.res.status = 200 /\ http.res.body = "success"
           /\ http.res.email = sos_alerts[http.req.body.id].user_id
      ELSE http.res.status = 403 /\ http.res.email = NULL

\* C10 amended: as above, but for the owner or an administrator the answer is
\* 200 {success:true} only when the recipient's address resolves and the
\* provider accepts the message; 400 without a message when the address does
\* not resolve, 502 when the provider rejects the message
C10_OwnerOrAdminSendsIfDeliverable ==
  (http.fn = "notify-sos" /\ PassesChecks(http)) =>
    IF http.req.body.id \notin AlertIds
      THEN http.res.status = 404 /\ http.res.email = NULL
    ELSE IF ~CallerMaySend(http)
      THEN http.res.status = 403 /\ http.res.email = NULL
    ELSE IF ~http.env.target
      THEN http.res.status = 400 /\ http.res.email = NULL
    ELSE IF ~http.env.emailOk
      THEN /\ http.res.status = 502
           /\ http.res.email = sos_alerts[http.req.body.id].user_id
    ELSE /\ http.res.status = 200 /\ http.res.body = "success"
         /\ http.res.email = sos_alerts[http.req.body.id].user_id

\* C10 witness: the owner u1, who is no administrator, has called the
\* dispatcher for its own alert and the message went out
C10_Witness ==
  /\ http.fn = "notify-sos" /\ PassesChecks(http)
  /\ http.req.auth = "u1" /\ <<"u1", "admin">> \notin user_roles
  /\ http.req.body.id \in AlertIds
  /\ sos_alerts[http.req.body.id].user_id = "u1"
  /\ http.res.status = 200 /\ http.res.email = "u1"

\* an administrator's well-formed request to notify-incident-update for an
\* incident that exists
AdminCallsFor(x) ==
  /\ x.fn = "notify-incident-update" /\ PassesChecks(x)
  /\ <<x.req.auth, "admin">> \in user_roles
  /\ x.req.body.id \in IncidentIds

\* C11: called by an administrator, notify-incident-update attempts no email
\* for an incident whose is_anonymous flag is true and answers 200
\* {success:true, skipped:"anonymous incident"}; for a non-anonymous incident
\* whose reporter address resolves it attempts one email to the reporter and
\* (the provider accepting it) answers 200 {success:true}
C11_AnonymousNeverMailed ==
  AdminCallsFor(http) =>
    LET incident == incidents[http.req.body.id]
    IN  /\ incident.is_anonymous =>
             /\ http.res.status = 200
             /\ http.res.body = "skipped: anonymous incident"
             /\ http.res.email = NULL
        /\ (~incident.is_anonymous /\ incident.user_id # NULL /\ http.env.target) =>
             /\ http.res.email = incident.user_id
             /\ http.env.emailOk => http.res.status = 200 /\ http.res.body = "success"

\* the session's identity changes the status of a non-anonymous incident whose
\* reporter's address resolves
ChangesStatus(s, id, st, env) ==
  /\ handleStatusChange(s, id, st, env)
  /\ incidents[id].status # st
  /\ ~incidents[id].is_anonymous /\ incidents[id].user_id # NULL
  /\ env.target

\* the status update is committed and the dispatcher is invoked with the id
CommittedAndInvoked(id, st) ==
  /\ incidents'[id].status = st
  /\ http'.fn = "notify-incident-update" /\ http'.req.body.id = id

\* C12: whenever an administrator or moderator changes the status of a
\* non-anonymous incident whose reporter address resolves, the dispatcher is
\* invoked with the incident's id after the update is committed, accepts the
\* caller and attempts an email to the reporter
C12_ElevatedChangeNotifies ==
  [][\A s \in Sessions, id \in IncidentIds, st \in incident_status, env \in DashEnvs :
       (/\ ChangesStatus(s, id, st, env)
        /\ has_role(session[s], "admin") \/ has_role(session[s], "moderator"))
         => /\ CommittedAndInvoked(id, st)
            /\ http'.res.status \notin {401, 403}
            /\ http'.res.email = incidents[id].user_id]_vars

\* C12 amended: the dispatcher accepts the caller and attempts the email only
\* when the caller is an administrator; for a moderator the update is
\* committed and the dispatcher invoked, but it answers 403 without an email
C12_AdminChangeNotifies ==
  [][\A s \in Sessions, id \in IncidentIds, st \in incident_status, env \in DashEnvs :
       /\ (ChangesStatus(s, id, st, env) /\ has_role(session[s], "admin"))
            => /\ CommittedAndInvoked(id, st)
               /\ http'.res.status \in {200, 502}
               /\ http'.res.email = incidents[id].user_id
       /\ (/\ ChangesStatus(s, id, st, env)
           /\ has_role(session[s], "moderator") /\ ~has_role(session[s], "admin"))
            => /\ CommittedAndInvoked(id, st)
               /\ http'.res.status = 403
               /\ http'.res.email = NULL]_vars

\* C12 witness: the administrator u2 has resolved the incident of u1 and the
\* dispatcher has sent the email to u1
C12_Witness ==
  /\ http.fn = "notify-incident-update" /\ http.req.auth = "u2"
  /\ http.req.body.id \in IncidentIds
  /\ incidents[http.req.body.id].status = "resolved"
  /\ incidents[http.req.body.id].user_id = "u1"
  /\ http.res.status = 200 /\ http.res.email = "u1"
  /\ toast.kind = "success"

\* the request reaches the lookup of the recipient's address: the caller is
\* authorised and the record exists and names its owner
ReachesLookup(x) ==
  \/ /\ x.fn = "notify-sos" /\ PassesChecks(x)
     /\ x.req.body.id \in AlertIds
     /\ CallerMaySend(x)
  \/ /\ AdminCallsFor(x)
     /\ incidents[x.req.body.id].user_id # NULL

\* C13: both dispatcher endpoints answer 400 when the address of the record's
\* owner cannot be resolved, and no email is attempted
C13_Unresolvable400 ==
  (ReachesLookup(http) /\ ~http.env.target) =>
    http.res.status = 400 /\ http.res.email = NULL

\* C13 amended: when the address cannot be resolved neither endpoint attempts
\* an email; notify-sos answers 400, notify-incident-update answers 200
\* {success:true, skipped:"user email not found"}
C13_UnresolvableNoEmail ==
  (ReachesLookup(http) /\ ~http.env.target) =>
    /\ http.res.email = NULL
    /\ IF http.fn = "notify-sos"
       THEN http.res.status = 400 /\ http.res.body = "Target user email not found"
       ELSE http.res.status = 200 /\ http.res.body = "skipped: user email not found"

\* C13 witness: the administrator's call for the incident of u1 found no
\* address for u1 and was answered with the skip
C13_Witness ==
  /\ AdminCallsFor(http) /\ ~http.env.target
  /\ incidents[http.req.body.id].user_id = "u1"
  /\ ~incidents[http.req.body.id].is_anonymous
  /\ http.res.status = 200 /\ http.res.body = "skipped: user email not found"

\* C14: notify-incident-update answers 403 and attempts no email for every
\* authenticated caller that is no administrator, a moderator and the
\* incident's reporter included, whether or not the incident exists
C14_NonAdminForbidden ==
  (/\ http.fn = "notify-incident-update" /\ PassesChecks(http)
   /\ <<http.req.auth, "admin">> \notin user_roles)
    => http.res.status = 403 /\ http.res.email = NULL

\* C14 witness: u1, a moderator and the reporter of the incident, was answered
\* 403 for its own incident
C14_Witness ==
  /\ http.fn = "notify-incident-update" /\ PassesChecks(http)
  /\ http.req.auth = "u1" /\ Roles("u1") = {"user", "moderator"}
  /\ http.req.body.id \in IncidentIds
  /\ incidents[http.req.body.id].user_id = "u1"
  /\ http.env.target /\ http.env.emailOk
  /\ http.res.status = 403

\* ================================================================== forum
\* no concurrent writer: the counter the page holds for the post is the stored one
Fresh(s, p) ==
  /\ p \in DOMAIN posts[s] /\ p \in PostIds
  /\ posts[s][p] = forum_posts[p].upvotes

\* C15: upvoting a post whose stored counter is N, with no concurrent writer,
\* leaves the stored counter at N+1 and every other field of the post
\* (updated_at included) and every other post unchanged
C15_UpvoteChangesOnlyCounter ==
  [][\A s \in Sessions, p \in DOMAIN forum_posts :
       (handleUpvote(s, p) /\ Fresh(s, p))
         => forum_posts' = [forum_posts EXCEPT ![p].upvotes = @ + 1]]_vars

\* C16: an upvote issued by an authenticated client that is not the post's
\* author, on a post with counter N and no concurrent writer, results in a
\* stored counter of N+1
C16_NonAuthorUpvoteCounts ==
  [][\A s \in Sessions, p \in DOMAIN forum_posts :
       (/\ handleUpvote(s, p) /\ Fresh(s, p)
        /\ session[s] \in users /\ session[s] # forum_posts[p].user_id)
         => forum_posts'[p].upvotes = forum_posts[p].upvotes + 1]_vars

\* C17: a post's stored upvote counter never decreases, across any
\* interleaving of upvotes of several sessions each writing the value it last
\* loaded plus one
C17_CounterNeverDecreases ==
  [][\A p \in PostIds : forum_posts'[p].upvotes >= forum_posts[p].upvotes]_vars

\* ================================================== signup and deletions
\* C18: immediately after an identity is created, its profile row exists and
\* its only role assignment is the user role
C18_SignupGivesProfileAndUserRole ==
  [][\A u \in Ids :
       (u \notin users /\ u \in users')
         => /\ u \in profiles'
            /\ {r \in user_roles' : r[1] = u} = {<<u, "user">>}]_vars

\* C18 witness: the last step was a signup (every identity exists again after
\* a deletion that left a deleted alert behind), and the identities have their
\* profile and the user role
C18_Witness ==
  /\ actor = NULL /\ users = Ids
  /\ \E i \in DOMAIN sos_alerts : sos_alerts[i].user_id = NULL
  /\ \E u \in Ids : u \in profiles /\ Roles(u) = {"user"}
  /\ \A u \in Ids : u \in profiles /\ "user" \in Roles(u)

\* C20: no operation of an authenticated identity and no deletion of the
\* reporting identity removes an existing incident row
C20_IncidentsNeverDeleted ==
  [][\A i \in IncidentIds : i \in DOMAIN incidents']_vars

\* C20 witness: the reporter u1 of a non-anonymous incident has been deleted
\* and u2 has since sent a request; the row is still there
C20_Witness ==
  /\ Len(incidents) = MaxIncidents
  /\ "u1" \notin users /\ actor = "u2"
  /\ \E i \in IncidentIds : incidents[i].user_id = NULL /\ ~incidents[i].is_anonymous

\* C19: no operation of an authenticated identity, the author included,
\* changes the content of an existing comment or removes it
C19_CommentsImmutable ==
  [][\A i \in CommentIds :
       actor' \in Ids => forum_comments'[i] = forum_comments[i]]_vars

\* the comment is removed in this step
Removed(i) == forum_comments'[i] = [forum_comments[i] EXCEPT !.user_id = NULL]

\* C19 amended: a comment changes only by its author's update of the content
\* or its author's delete, by the delete of its post by the post's author, or
\* by the deletion of the identity of its author or of its post's author
C19_CommentsChangeOnlyByOwners ==
  [][\A i \in CommentIds :
       forum_comments'[i] # forum_comments[i] =>
         LET c == forum_comments[i]
             author == forum_posts[c.post_id].user_id
         IN  \/ /\ actor' = c.user_id
                /\ \/ Removed(i)
                   \/ \E t \in Contents : forum_comments'[i] = [c EXCEPT !.content = t]
             \/ /\ actor' = author
                /\ forum_posts'[c.post_id].user_id = NULL /\ Removed(i)
             \/ /\ actor' = NULL
                /\ c.user_id \notin users' \/ author \notin users'
                /\ Removed(i)]_vars

\* C19 witness: u2 has just sent a request that left the comment which its
\* author u1 had edited before as it was
C19_Witness ==
  /\ actor = "u2"
  /\ \E i \in CommentIds :
       /\ forum_comments[i].user_id = "u1"
       /\ forum_comments[i].content = "edited"
       /\ forum_posts[forum_comments[i].post_id].user_id = "u1"

\* the identity holds the admin or the moderator role
Elevated(u) == Roles(u) \cap ElevatedRoles # {}

\* C21: every status change of an elevated-role identity stores the chosen
\* value whatever the status was before, and every incident's status is always
\* one of new, under_review, resolved
C21_AnyStatusToAnyStatus ==
  /\ [](\A i \in IncidentIds : incidents[i].status \in incident_status)
  /\ [][\A s \in Sessions, id \in IncidentIds, st \in incident_status, env \in DashEnvs :
          (handleStatusChange(s, id, st, env) /\ Elevated(session[s]))
            => incidents'[id].status = st]_vars

\* C21 witness: a moderator who is no administrator has just set an incident
\* to resolved
C21_Witness ==
  /\ toast.kind = "success" /\ toast.text = "Status updated successfully"
  /\ http # NoExchange /\ http.fn = "notify-incident-update"
  /\ "moderator" \in Roles(http.req.auth) /\ "admin" \notin Roles(http.req.auth)
  /\ http.req.body.id \in IncidentIds
  /\ incidents[http.req.body.id].status = "resolved"

\* C22: the filter returns, in the loaded order, exactly the loaded resources
\* whose lower-cased title or content contains the lower-cased search term and
\* whose category is the selected one if a category is selected; with an empty
\* term and no category selected it returns every loaded resource
C22_FilterIsSearchAndCategory ==
  LET matches(r) ==
        /\ \/ includes(toLowerCase(r.title), toLowerCase(searchTerm))
           \/ includes(toLowerCase(r.content), toLowerCase(searchTerm))
        /\ selectedCategory = <<>> \/ r.category = selectedCategory[1]
  IN  /\ filteredResources = SelectSeq(resources, matches)
      /\ (searchTerm = <<>> /\ selectedCategory = <<>>) => filteredResources = resources

\* C23: the answer of the checkActiveAlert query is none exactly when the
\* identity has no active alert, and otherwise one of the identity's own
\* active alerts with the greatest created_at among them
C23_QueryReturnsNewestActive ==
  [][\A s \in Sessions :
       (chk[s].st = "sent" /\ chk'[s].st = "done")
         => LET own == ActiveRows(session[s])
                d == chk'[s].data
            IN  /\ d = 0 <=> own = {}
                /\ d # 0 =>
                     /\ d \in own
                     /\ \A j \in own : sos_alerts[j].created_at <= sos_alerts[d].created_at]_vars

\* C23 witness: the query has answered with an alert while the identity has an
\* older active alert as well
C23_Witness ==
  \E s \in Sessions :
    /\ chk[s].st = "done" /\ chk[s].data \in AlertIds
    /\ \E j \in ActiveRows(session[s]) :
         sos_alerts[j].created_at < sos_alerts[chk[s].data].created_at

\* what the resolver answers for every query: true exactly for a holder of the
\* admin role
ResolverAnswersAdminOnly ==
  \A c \in RoleChecks :
     checkAdminStatus_query(c)
       => RoleCheck(c.userId, "done", "admin" \in Roles(c.userId)) \in roleChecks'

\* the delivery of a result puts the Admin Panel entry in navItems exactly if
\* the result is true
ResultSetsEntry ==
  \A c \in RoleChecks :
     checkAdminStatus(c) => ("/admin" \in navItems' <=> c.data)

\* C24: the resolver yields true exactly for a holder of the admin role, and
\* the Admin Panel entry is present exactly when the resolver's last result is
\* true: only the delivery of a result changes whether it is present
C24_EntryIsLastResult ==
  [][/\ ResolverAnswersAdminOnly
     /\ ResultSetsEntry
     /\ ("/admin" \in navItems') # ("/admin" \in navItems)
          => \E c \in RoleChecks : checkAdminStatus(c)]_vars

\* C24 amended: the resolver yields true exactly for a holder of the admin
\* role; the Admin Panel entry is in navItems exactly when isAdmin is true and
\* is rendered only with a session; isAdmin is the last result delivered, or
\* false if a sign-out event came after it
C24_EntryIsLastResultUnlessSignedOut ==
  /\ []("/admin" \in navItems <=> layoutIsAdmin)
  /\ []("/admin" \in NavLinks <=> (layoutIsAdmin /\ layoutSession # NULL))
  /\ [][/\ ResolverAnswersAdminOnly
        /\ ResultSetsEntry
        /\ Layout_onSignOut => "/admin" \notin navItems'
        /\ ("/admin" \in navItems') # ("/admin" \in navItems)
             => \/ \E c \in RoleChecks : checkAdminStatus(c)
                \/ Layout_onSignOut]_vars

\* C24 witness: the administrator u2 sees the Admin Panel entry while the
\* resolver has answered false for u1, who holds the user and moderator roles
C24_Witness ==
  /\ layoutSession = "u2" /\ "/admin" \in NavLinks
  /\ Roles("u1") = {"user", "moderator"}
  /\ RoleCheck("u1", "done", FALSE) \in roleChecks

\* C28: when no checkAdminStatus request is in flight, isAdmin tells whether
\* the identity of the current session holds the admin role, and is false
\* without a session
C28_IsAdminMatchesSession ==
  roleChecks = {}
    => (layoutIsAdmin <=> (layoutSession # NULL /\ "admin" \in Roles(layoutSession)))

\* C25: either endpoint answers OPTIONS with the success response "ok" and
\* every method other than POST and OPTIONS with 405, whatever the credential,
\* the configuration, the body and the store are, and attempts no email
C25_PreflightAndMethodCheckFirst ==
  http # NoExchange =>
    /\ http.req.method = "OPTIONS" => http.res = Response(200, "ok", NULL)
    /\ http.req.method \notin {"POST", "OPTIONS"}
         => http.res = Response(405, "Method not allowed", NULL)

\* C25 witness: notify-incident-update has answered "ok" to an OPTIONS request
\* without a credential, with an unparsable body and an unconfigured function
C25_Witness ==
  /\ http.fn = "notify-incident-update"
  /\ http.req.method = "OPTIONS" /\ http.req.auth = "" /\ ~http.req.body.valid
  /\ ~http.env.config
  /\ http.res.status = 200

\* the row a step has appended to a table
Added(old, new) == new[Len(new)]

\* C26: every post and comment enters the store with the identity as author
\* that was authenticated for the insert (the page's session or the caller of
\* the request, never none), and keeps that author for as long as it exists
C26_AuthorIsCreator ==
  [][/\ \A i \in PostIds : forum_posts'[i].user_id \in {forum_posts[i].user_id, NULL}
     /\ \A i \in CommentIds :
          forum_comments'[i].user_id \in {forum_comments[i].user_id, NULL}
     /\ Len(forum_posts') > Len(forum_posts) =>
          LET row == Added(forum_posts, forum_posts')
          IN  /\ row.user_id \in Ids
              /\ \/ \E s \in Sessions : handleCreatePost(s) /\ session[s] = row.user_id
                 \/ /\ actor' = row.user_id
                    /\ \E u \in Ids : forum_posts_insert(actor', NewPostRow(u))
     /\ Len(forum_comments') > Len(forum_comments) =>
          LET row == Added(forum_comments, forum_comments')
          IN  /\ row.user_id \in Ids
              /\ \/ \E s \in Sessions :
                      handleAddComment(s, row.post_id) /\ session[s] = row.user_id
                 \/ /\ actor' = row.user_id
                    /\ \E r \in CommentRows : forum_comments_insert(actor', r)]_vars

\* C26 witness: u1's post carries u2's comment, and the last request to the
\* store came from u2
C26_Witness ==
  /\ actor = "u2"
  /\ \E i \in CommentIds :
       /\ forum_comments[i].user_id = "u2"
       /\ forum_comments[i].post_id \in PostIds
       /\ forum_posts[forum_comments[i].post_id].user_id = "u1"

\* C27: a request that changes an incident comes from the identity in the
\* incident's user_id or from a holder of the admin or moderator role; an
\* incident without user_id is changed only by the latter
C27_OnlyOwnerOrElevatedUpdates ==
  [][\A i \in IncidentIds :
       (actor' \in Ids /\ incidents'[i] # incidents[i])
         => \/ SqlEq(incidents[i].user_id, actor')
            \/ Elevated(actor')]_vars

\* C27 witness: the moderator u1 has sent a request, and the incident has no
\* user_id and is not flagged anonymous, which no insert produces
C27_Witness ==
  /\ actor = "u1" /\ Roles("u1") = {"user", "moderator"}
  /\ users = Ids
  /\ \E i \in IncidentIds : incidents[i].user_id = NULL /\ ~incidents[i].is_anonymous

\* no checkActiveAlert, handleSOS or handleDeactivateSOS request is in flight
Quiescent == \A s \in Sessions : chk[s] = NoCheck /\ pc[s] = "idle"

\* C29: whenever no request is in flight, a dashboard with a session holds no
\* activeAlert if and only if the store holds no active alert of the
\* session's identity
C29_LocalAlertMatchesStore ==
  Quiescent =>
    \A s \in Sessions :
       session[s] # NULL => (activeAlert[s] = 0 <=> ActiveRows(session[s]) = {})

\* C30: when no change notification is on its way to a mounted view and none
\* of its loadPosts requests is in flight, the view lists the posts the store
\* holds; and no step adds a loadPosts request to a view that is not mounted
C30_ListMatchesStoreWhenQuiet ==
  /\ [](\A s \in Viewers :
          (subscribed[s] /\ notifications[s] = 0 /\ loadRequests[s] = <<>>)
            => posts[s] = PostsView(session[s]))
  /\ [][\A s \in Viewers :
          (~subscribed[s] /\ ~subscribed'[s]) => loadRequests'[s] = loadRequests[s]]_vars

====
